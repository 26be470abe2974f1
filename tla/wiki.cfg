SPECIFICATION Spec
CONSTANTS
    a = a
    b = b
    who = who
    bio = bio
    Names = {a, b}
    Keys = {who, bio}
    Findings <- BothOrOne
    Subjects = {b}
    Runs = Runs
    Upload = Upload
    MaxGenerations = 2
    MaxItems = 1
    NoProject = NoProject
    NoBundle = NoBundle
INVARIANTS SameIsOne NothingOfADeletedItem
PROPERTIES WrittenByHandIsBack ReplacesWhatItRead
CHECK_DEADLOCK FALSE

SPECIFICATION FilesSpec
CONSTANTS
    f1 = f1
    f2 = f2
    organizer = organizer
    reorganization = reorganization
    admin = admin
    purge = purge
    Files = {f1, f2}
    Paths <- AllPaths
    Home <- OneOrganized
    Layouts <- TwoLayouts
    Suffixed <- BySuffix
    Beside <- Besides
    Tasks = {organizer, reorganization, admin}
    Does <- OneTrashed
    MaxTrashings = 2
    MaxCrashes = 1
    NoFile = NoFile
    NoPath = NoPath
    a = a
    b = b
    Contents = {a, b}
    Converted <- TextInUtf16
    Origins = {o1}
    Jobs = Jobs
    Requests = {q1}
    Importers = {q1}
    MaxChanges = 1
    MaxDeletions = 1
    MaxRestarts = 1
    Nothing = Nothing
    NoPlace = NoPlace
    v1 = v1
    v2 = v2
    s1 = s1
    s2 = s2
    s3 = s3
    Volumes = {v1, v2}
    Shelves = {s1, s2, s3}
    Owners = {work}
    Photographed = {}
    MaxPictures = 1
    MaxReshelved = 1
    MaxPackages = 1
    MaxRestores = 2
    MaxDisasters = 1
    Vacant = Vacant
    Latest = 8
    Daily <- Days
    Weekly <- Weeks
    Monthly <- Months
    Policy <- Few
INVARIANTS InStep Recoverable PathHoldsItsOwn ManagedHolds OriginalsTracked AsItWas FilesAccounted PrunedAsOnce
PROPERTIES OverwritesOnlyInAClash RemovesOnlyCopies
CHECK_DEADLOCK FALSE
SYMMETRY Alike
CONSTRAINT Orderly

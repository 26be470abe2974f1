SPECIFICATION Spec
CONSTANTS
    f1 = f1
    f2 = f2
    organizer = organizer
    reorganization = reorganization
    admin = admin
    purge = purge
    Files = {f1, f2}
    Paths <- AllPaths
    Home <- Uploads
    Layouts <- OneLayout
    Suffixed <- BySuffix
    Beside <- Besides
    Tasks = {organizer, reorganization}
    Does <- Anything
    MaxTrashings = 0
    MaxCrashes = 0
    NoFile = NoFile
    NoPath = NoPath
PROPERTIES NeverOverwrites
CHECK_DEADLOCK FALSE

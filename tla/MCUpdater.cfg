CONSTANTS
    Checkers = {k1}
    Installers = {i1, i2}
    MaxVersion = 2
SPECIFICATION Spec
INVARIANTS
    GuardIsTheInstaller
PROPERTIES
    InstallsWhatWasOffered
    AnnouncedAtMostOnce
    NewestIsAnnounced

CONSTANTS
    Checkers = {k1}
    Installers = {i1}
    MaxVersion = 2
SPECIFICATION Spec
INVARIANT
    AnnouncedHasInstallPath

CONSTANTS
    Main = main
    Callers = {main}
    Setups <- MCSetups
    MaxChanges = 2
    MaxToggles = 3
SPECIFICATION Spec
PROPERTIES
    NeverDowngrades

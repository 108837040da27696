CONSTANTS
    cmd = cmd
    safety = safety
    Topics <- MCTopics
SPECIFICATION Spec
PROPERTY Reconnects

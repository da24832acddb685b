SPECIFICATION Spec
CONSTANT Platforms = {"sylixos", "oneos", "ruihua"}
CHECK_DEADLOCK FALSE
PROPERTY SettimeStarts

SPECIFICATION BindingsSpec
CONSTANTS Thread = {t1} Name = {f} File = {"", "a"} NewKind = {"lambda", "value"} MaxForms = 4 RingSize = 2
PROPERTIES ReloadIsAllowed
CHECK_DEADLOCK FALSE

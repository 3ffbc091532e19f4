SPECIFICATION Spec
CHECK_DEADLOCK FALSE
PROPERTY RunEnds
 
PROPERTY Relisted

SPECIFICATION Spec
CONSTANT CellVoltages <- LoadCurve
PROPERTY TestEndsInReport

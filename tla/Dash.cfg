SPECIFICATION Spec
CONSTANTS
    Windows = {"small", "large"}
    NoWindow = "none"
    Styles = {"porsche", "taycan", "boxster", "race", "ford", "jdm"}
    NoStyle = "null"
    Packets <- MCPackets
    NoCar = 0
INVARIANTS
    BarComesAndGoes
    OneWakeLock
    AwakeOrRefused
    PeakIsOfCar
    ScaleIsReadable
    CanvasIsCurrent

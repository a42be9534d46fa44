SPECIFICATION ReadSpec
CONSTANTS
 ReadPrograms<-MCReadPrograms
 NItems=3
 PageCap=2
 PageSize=1
 ScanMax=2
 
PROPERTY ReadsEnd
CHECK_DEADLOCK FALSE

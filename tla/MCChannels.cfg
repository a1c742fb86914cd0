CONSTANTS
  p1 = p1 p2 = p2 g1 = g1 u = u r = r v1 = v1 m1 = m1
  NoVal = NoVal NoProc = NoProc
  Proc <- ProcDef
  Goroutine = {g1}
  Chan <- ChanDef
  Cap <- CapDef
  ResultChan <- ResultChanDef
  Val = {v1}
  Outcome = {m1}
  CaseLists <- CaseListsDef
  MayCall <- MayCallDef
SPECIFICATION FairSpec
INVARIANTS NoSendOnClosed SelectIndexSound
PROPERTIES ImplementsAtomic ClosingEndsCalls SpawnEnds
CHECK_DEADLOCK FALSE

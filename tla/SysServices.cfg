SPECIFICATION Spec
CONSTANTS
  Service <- MCIspService
  Kind <- MCIspKind
  Opcode <- MCIspOpcode
  ParamLen <- MCIspParamLen
  RespLen <- MCIspRespLen
  Byte <- MCByte
  POR = "F1"
  Zero = "00"
  Uninit = Uninit
  TxDepth = 3
  PageLen <- MCPages
  IapService = {"iapauth", "iapprog", "iapveri"}
  IapProgram = {"iapprog"}
  IapVerify = {"iapveri"}
  Digest = "digest"
  ClkFix = {TRUE}
  Event = {"E0"}
  RespByte = {"00", "F1"}
  PorSends = TRUE
  MaxEvents = 1
  MaxPorData = 1
INVARIANTS TypeOK  PagesBeforeWait TxStream PorEventPerByte
PROPERTIES DeadStackGetsDigestOnly
CHECK_DEADLOCK FALSE

SPECIFICATION FairSpec
CONSTANTS
  Service <- MCService
  Kind <- MCKind
  Opcode <- MCOpcode
  ParamLen <- MCParamLen
  RespLen <- MCRespLen
  Byte <- MCByte
  POR = "F1"
  Zero = "00"
  Uninit = Uninit
  TxDepth = 4
  PageLen <- MCNoPages
  IapService = {"iapauth", "iapprog", "iapveri"}
  IapProgram = {"iapprog"}
  IapVerify = {"iapveri"}
  Digest = "digest"
  ClkFix = {TRUE, FALSE}
  Event = {"E0"}
  RespByte = {"00", "7F"}
  PorSends = TRUE
  MaxEvents = 2
  MaxPorData = 0
INVARIANTS NoLostRequest StoreInBounds SpiHeldForIap EnvmAtPrompt
PROPERTIES CommandReturns

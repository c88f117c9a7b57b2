---------------------------- MODULE MCSysServices ----------------------------
(* Small instances of SysServices.  A response is cut to 3 bytes (opcode,   *)
(* status, one byte of the rest); ParamLen 2 stands for the 5 IAP bytes.    *)
(* ispbig is an ISP request whose command does not fit into the FIFO.      *)
EXTENDS SysServices

MCService  == {"getver", "iapauth", "iapprog", "iapveri", "digest"}
MCKind     == [s \in MCService |-> IF s = "getver" THEN "ptr" ELSE "cmd"]
MCOpcode   == [s \in MCService |-> IF s \in {"getver", "digest"} THEN s ELSE "iap"]
MCParamLen == [s \in MCService |-> IF s \in {"getver", "digest"} THEN 1 ELSE 2]
MCRespLen  == [s \in MCService |-> IF s = "getver" THEN 3 ELSE 2]

MCIsp         == {"isp", "ispbig"}
MCIspService  == MCService \cup MCIsp
MCIspKind     == [s \in MCIspService |-> IF s \in MCIsp THEN "paged" ELSE MCKind[s]]
MCIspOpcode   == [s \in MCIspService |-> IF s \in MCIsp THEN "isp" ELSE MCOpcode[s]]
MCIspParamLen == [s \in MCIspService |-> IF s \in MCIsp THEN IF s = "isp" THEN 1 ELSE 3
                                         ELSE MCParamLen[s]]
MCIspRespLen  == [s \in MCIspService |-> IF s \in MCIsp THEN 2 ELSE MCRespLen[s]]

MCByte    == {"00", "7F", "E0", "F1", "getver", "digest", "iap", "isp"}
MCNoPages == << >>
MCPages   == <<2, 1>>
==============================================================================

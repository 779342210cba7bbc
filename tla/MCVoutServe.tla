--------------------------- MODULE MCVoutServe ---------------------------
(* The outputs of the boxes: an HDMI transmitter with a server for each of *)
(* the two vouts, of which only the first has a device to send uevents     *)
(* from, and a composite output on vout 1.  `imposter' carries the name of *)
(* the first server.                                                       *)
EXTENDS VoutServe

CONSTANTS hdmi1, hdmi2, cvbs1, imposter, hdmi, cvbs, rx1, ctl1, ctl2, any

MCVoutOf == [s \in Servers |-> IF s = hdmi2 THEN 2 ELSE 1]
MCDeviceOf == [s \in Servers |-> IF s = cvbs1 THEN cvbs ELSE hdmi]
MCNameOf == [s \in Servers |->
  CASE s = hdmi2 -> "hdmitx_vout2_server"
    [] s = cvbs1 -> "cvbs_vout_server"
    [] OTHER -> "hdmitx_vout_server"]
MCSupports == [s \in Servers |-> IF s = cvbs1 THEN {"cvbs"} ELSE {"hdmi"}]
MCHasDev == Servers \cap {hdmi1, imposter}

\* what each client of the registry does
MCCalls == [c \in Callers |->
  CASE c = rx1 -> {"hint"}
    [] c = ctl1 -> {"mode", "policy", "power"}
    [] c = ctl2 -> {"mode"}
    [] OTHER -> {"rawmode", "hint", "shutdown"}]
MCCallVouts == [c \in Callers |->
  CASE c = ctl2 -> {2} [] c = any -> Vouts [] OTHER -> {1}]

\* before vout 2 was given a mode, and before any vout was
HdmiCurr == [i \in Vouts |-> IF i = 1 THEN hdmi1 ELSE NULL]
CvbsCurr == [i \in Vouts |-> IF i = 1 THEN cvbs1 ELSE NULL]
NoCurr == [i \in Vouts |-> NULL]
=============================================================================

----------------------------- MODULE MCPolicyUse -----------------------------
(* A small policy for TLC: one tool spelt in two ways, one that some files *)
(* have no rule for, and one that none has.                                *)
EXTENDS PolicyUse

MCNames == {"wipeDevice", "WIPEDEVICE", "blockIP", "blockip", "whois"}
MCLower == [n \in MCNames |-> IF n = "WIPEDEVICE" THEN "wipedevice"
                              ELSE IF n = "wipeDevice" THEN "wipedevice"
                              ELSE IF n = "blockIP" THEN "blockip" ELSE n]
MCTools == {"wipeDevice", "blockIP", "whois"}

R(tool, action) == [tool |-> tool, action |-> action]

MCFiles == {<<R("WIPEDEVICE", "block"), R("wipeDevice", "allow")>>,
            <<R("blockip", "escalate"), R("wipeDevice", "escalate")>>,
            <<R("wipeDevice", "allow")>>}
=============================================================================

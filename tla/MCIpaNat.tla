-------------------------------- MODULE MCIpaNat --------------------------------
(* One NAT client, one host without NAT, two STA clients for one place, two WAN  *)
(* addresses, and flows: of the client to an STA client or to elsewhere, of the  *)
(* host, of the phone itself.                                                    *)
EXTENDS IpaNat, TLC

CONSTANTS c1, h1, wa, wb, p1, p2, far, fc, fh, fw, fp

MCSrc == [f \in Flows |-> IF f = fh THEN h1 ELSE IF f = fw THEN wa ELSE c1]
MCDst == [f \in Flows |-> IF f = fp THEN p1 ELSE far]

(* In one step the driver serves all rules, or all but those of fp. *)
MCFailures == {{}, {k \in Keys : k.flow = fp}}
NoFailures == {{}}

AnyGarbage == [pre : WanIps \cup {None}, saving : SUBSET Clients]
Zeroed == {[pre |-> None, saving |-> {}]}

(* The run's flows use no WAN address of their own: the two are alike.          *)
WanSymmetry == Permutations({wa, wb})
=============================================================================

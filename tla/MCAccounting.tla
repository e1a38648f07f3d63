---------------------------- MODULE MCAccounting ----------------------------
(* Small instances of Accounting for TLC.                                  *)
EXTENDS Accounting, MCRegistry

(* Two tenants, and a datagram for each reason dispatch may drop it.       *)
CountedPayloads == {Tagged("a", TRUE), Tagged("b", TRUE), Tagged("a", FALSE),
                    Untagged, Faulty("malformed"), Faulty("bad_project"),
                    Faulty("bad_token")}
=============================================================================

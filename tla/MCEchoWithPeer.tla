---------------------------- MODULE MCEchoWithPeer ----------------------------
(***************************************************************************)
(* Two messages of different lengths, from different short addresses.      *)
(***************************************************************************)
EXTENDS MCApplications, EchoWithPeer

MCMessages == <<Frame(EchoConfig.pan_id, Address(2, 1), 3, TRUE),
                Frame(EchoConfig.pan_id, Address(2, 5), 0, FALSE)>>

=============================================================================

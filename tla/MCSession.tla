------------------------------ MODULE MCSession ------------------------------
(* Small instances of Session for TLC. *)
EXTENDS Session

M(lingo, id, type) ==
    [lingo |-> lingo, id |-> id, type |-> type, size |-> Registered[lingo][id][type]]
G(id) == M("General", id, 1)
Tokens == [lingo |-> "General", id |-> "SetFIDTokenValues", type |-> 1, size |-> 5]
Other == [lingo |-> "General", id |-> "Other", type |-> UnknownPayload, size |-> 1]

\* One after another: a switch of the mode, also behind a command that may have
\* no answer; what is not
\* registered, and what Lookup has only the mode for; what has two types, what
\* has an answer that cannot be written, and what may have two answers.
Frames ==
    {<<G("StartIDPS")>>,
     <<G("EndIDPS"), G("IdentifyDeviceLingoes")>>,
     <<Other, Tokens>>,
     <<M("ExtRemote", "SetPlayStatusChangeNotification", 2),
       G("GetiPodAuthenticationInfo"), G("EnterRemoteUIMode")>>}
FewFrames == {<<G("StartIDPS")>>, <<Tokens, G("AckiPodAuthenticationStatus")>>}
=============================================================================

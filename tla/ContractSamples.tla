--------------------------- MODULE ContractSamples ---------------------------
(***************************************************************************)
(* The contracts and messages of which the instances are made.             *)
(***************************************************************************)
EXTENDS ContractRuntime

Fun(kind, mut, ext, int, ret) ==
    [kind |-> kind, mut |-> mut, ext |-> ext, int |-> int, ret |-> ret]

Functions(ctor, f, g) ==
    [id \in FunctionIds |-> CASE id = "ctor" -> ctor [] id = "f" -> f
                              [] id = "g" -> g [] id = "unknown" -> NoFunction]

Constructor(ext) == Fun("constructor", "nonpayable", ext, TRUE, "none")
Fallback(mut, ext, int) == Fun("fallback", mut, ext, int, "none")
Receive == Fun("receive", "nonpayable", FALSE, FALSE, "none")
OnBounce == Fun("onBounce", "view", FALSE, FALSE, "none")
TickTock == Fun("onTickTock", "nonpayable", FALSE, FALSE, "none")

(* A wallet: time protection, every kind of handler, a fallback for both    *)
(* kinds of messages, code upgrade.                                         *)
Wallet ==
    [headers |-> TRUE, hasExpire |-> TRUE, hasPubkey |-> TRUE, prot |-> "time",
     nvars |-> 2, nullFirst |-> FALSE,
     functions |-> Functions(Constructor(TRUE),
                             Fun("public", "nonpayable", TRUE, TRUE, "value"),
                             Fun("public", "view", TRUE, TRUE, "responsible")),
     receive |-> NoFunction, fallback |-> Fallback("nonpayable", TRUE, TRUE),
     onBounce |-> OnBounce, onTickTock |-> NoFunction,
     upgrade |-> TRUE, rawCommit |-> FALSE]

(* Sequence numbers, external functions only, one state variable. *)
Counter ==
    [Wallet EXCEPT !.prot = "seqno", !.hasExpire = FALSE, !.hasPubkey = FALSE, !.nvars = 1,
     !.functions = Functions(Constructor(TRUE),
                             Fun("public", "pure", TRUE, FALSE, "none"),
                             Fun("public", "nonpayable", TRUE, FALSE, "none")),
     !.receive = Receive, !.fallback = NoFunction, !.onBounce = NoFunction,
     !.upgrade = FALSE]

(* No external messages, no constructor, a tick-tock handler. *)
Special ==
    [Counter EXCEPT !.headers = FALSE, !.prot = "time",
     !.functions = Functions(NoFunction,
                             Fun("public", "nonpayable", FALSE, FALSE, "responsible"),
                             Fun("public", "pure", FALSE, TRUE, "none")),
     !.receive = NoFunction,
     !.fallback = Fallback("view", FALSE, FALSE),
     !.onTickTock = TickTock]

(* The user's own replay protection, and the raw COMMIT. *)
Custom ==
    [Wallet EXCEPT !.prot = "custom", !.rawCommit = TRUE, !.fallback = NoFunction,
     !.functions = Functions(NoFunction,
                             Fun("public", "nonpayable", TRUE, FALSE, "none"),
                             Fun("public", "view", TRUE, TRUE, "none"))]

Ext(sig, pubkey, time, expire, body) ==
    [sig |-> sig, pubkey |-> pubkey, time |-> time, expire |-> expire,
     body |-> body, argsOk |-> TRUE]
Int(bounced, body, argsOk) == [bounced |-> bounced, body |-> body, argsOk |-> argsOk]

CONSTANT Other    \* a key that is not the owner's

SampleExtMessages ==
    {Ext(Owner, NoKey, 1, 2, "ctor"), Ext(Owner, NoKey, 1, 1, "f"),
     Ext(Other, NoKey, 2, 2, "f"), Ext(Other, Other, 2, 2, "g"),
     Ext(NoKey, NoKey, 3, 2, "unknown"), Ext(NoKey, Other, 2, 2, "g"),
     Ext(Owner, NoKey, 2, 2, "short")}

SampleIntMessages ==
    {Int(FALSE, "ctor", TRUE), Int(FALSE, "f", TRUE), Int(FALSE, "g", TRUE),
     Int(FALSE, "f", FALSE), Int(FALSE, "empty", TRUE), Int(FALSE, "short", TRUE),
     Int(FALSE, "unknown", TRUE), Int(TRUE, "f", TRUE), Int(TRUE, "empty", TRUE)}
=============================================================================

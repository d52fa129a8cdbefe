----------------------------- MODULE MCApproval -----------------------------
(* The gate with two tokens and two handlers, one irreversible tool of an  *)
(* MCP server and requests and approvals from two channels: a cross-       *)
(* channel second factor, one on the old schema that has no columns for    *)
(* it, and a code where only one channel is paired.                        *)
EXTENDS Approval

CONSTANTS tg, dc, web

MCSessions == {tg, dc}
MCChannelOf == (tg :> "telegram") @@ (dc :> "discord")
MCWebSessions == {tg, web}
MCWebChannelOf == (tg :> "telegram") @@ (web :> "webchat")

TwoFactor(cross, totp, paired, columns) ==
    [classes |-> {"irreversible"}, crossChannel |-> cross, totp |-> totp, secret |-> totp,
     paired |-> paired, has2faCols |-> columns]
MCSettings == {TwoFactor(TRUE, FALSE, {"telegram", "discord"}, TRUE),
               TwoFactor(TRUE, FALSE, {"telegram", "discord"}, FALSE),
               TwoFactor(TRUE, TRUE, {"telegram"}, TRUE)}
MCWebSettings == {TwoFactor(TRUE, FALSE, {"telegram", "webchat"}, TRUE)}
Symmetric == Permutations(Tokens) \cup Permutations(Handlers)
MCMcpSpecs == {[actionClass |-> "irreversible", requiresBroker |-> TRUE]}
=============================================================================

---------------------------- MODULE TicketGrant ----------------------------
(***************************************************************************)
(* What an authorization server promises about permission tickets          *)
(* (server/as.go:83-99): a ticket stands for one permission, is redeemed   *)
(* at most once, and the token it is redeemed for carries that permission. *)
(***************************************************************************)
CONSTANT Perms  (* The permissions a resource server may register.         *)

VARIABLES
  perm,   (* The permission of every ticket ever issued.                   *)
  spent,  (* The tickets that were presented and taken.                    *)
  grant   (* For every token ever issued, the ticket it was issued for and *)
          (* the permission it carries.                                    *)

vars == <<perm, spent, grant>>

Init ==
  /\ perm = <<>>
  /\ spent = {}
  /\ grant = <<>>

(* Function g is f with one more argument in its domain.                   *)
Grows(f, g, x) ==
  /\ DOMAIN g = DOMAIN f \cup {x}
  /\ \A y \in DOMAIN f : g[y] = f[y]

Register ==
  \E t \in DOMAIN perm' \ DOMAIN perm :
    /\ Grows(perm, perm', t)
    /\ perm'[t] \in Perms
    /\ UNCHANGED <<spent, grant>>

Spend ==
  \E t \in DOMAIN perm \ spent :
    /\ spent' = spent \cup {t}
    /\ UNCHANGED <<perm, grant>>

(* A spent ticket that has not been redeemed for a token yet is.           *)
Grant ==
  \E r \in DOMAIN grant' \ DOMAIN grant :
    /\ Grows(grant, grant', r)
    /\ grant'[r].ticket \in spent
    /\ \A q \in DOMAIN grant : grant[q].ticket # grant'[r].ticket
    /\ grant'[r].perm = perm[grant'[r].ticket]
    /\ UNCHANGED <<perm, spent>>

Next == Register \/ Spend \/ Grant

Spec == Init /\ [][Next]_vars
=============================================================================

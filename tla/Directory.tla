----------------------------- MODULE Directory ------------------------------
(***************************************************************************)
(* What the service promises about accounts, without saying how.  Accounts *)
(* have addresses, each address at most one account.  A client asks for an *)
(* account to be added, moved to another address or removed, and is told   *)
(* that this is done or that it is refused.  What is done is done at once, *)
(* what is refused has no effect, and a removed account never comes back.  *)
(* Only a move may come too late: of an account that was removed meanwhile *)
(* it changes nothing, and the client is told "done".                      *)
(***************************************************************************)
CONSTANTS Clients, Uuids, Emails

VARIABLES
  accounts,   \* UUID -> address
  removed,    \* the accounts that have been removed
  ask         \* what each client asks for, and what it has been told

NoAsk == [op |-> "none", uuid |-> 0, email |-> "none", told |-> "nothing"]

Asks == [op : {"register", "create", "update", "delete"}, uuid : Uuids,
         email : Emails \cup {"none"}, told : {"nothing", "refused"}]

Free(u, e) == \A v \in DOMAIN accounts : accounts[v] = e => v = u

With(u, e) == [v \in DOMAIN accounts \cup {u} |-> IF v = u THEN e ELSE accounts[v]]

Without(u) == [v \in DOMAIN accounts \ {u} |-> accounts[v]]

Init ==
  /\ \A u, v \in DOMAIN accounts : accounts[u] = accounts[v] => u = v
  /\ removed = {}
  /\ ask = [c \in Clients |-> NoAsk]

\* A client may also be refused as soon as it asks.
Ask(c) ==
  /\ ask[c] = NoAsk
  /\ ask' = [ask EXCEPT ![c] = ask'[c]] /\ ask'[c] \in Asks
  /\ UNCHANGED <<accounts, removed>>

Tell(c, told) ==
  /\ ask[c].op # "none" /\ ask[c].told = "nothing"
  /\ ask' = [ask EXCEPT ![c].told = told]

Add(c) ==
  LET a == ask[c]
  IN  /\ a.op \in {"register", "create"}
      /\ a.uuid \notin DOMAIN accounts \cup removed
      /\ Free(a.uuid, a.email)
      /\ accounts' = With(a.uuid, a.email)
      /\ Tell(c, "done")
      /\ UNCHANGED removed

Move(c) ==
  LET a == ask[c]
  IN  /\ a.op = "update"
      /\ IF a.uuid \in DOMAIN accounts
         THEN Free(a.uuid, a.email) /\ accounts' = With(a.uuid, a.email)
         ELSE a.uuid \in removed /\ UNCHANGED accounts
      /\ Tell(c, "done")
      /\ UNCHANGED removed

\* Two clients may remove one account.
Remove(c) ==
  LET a == ask[c]
  IN  /\ a.op = "delete"
      /\ a.uuid \in DOMAIN accounts \cup removed
      /\ accounts' = Without(a.uuid)
      /\ removed' = removed \cup {a.uuid}
      /\ Tell(c, "done")

Refuse(c) == Tell(c, "refused") /\ UNCHANGED <<accounts, removed>>

Leave(c) ==
  /\ ask[c].told # "nothing"
  /\ ask' = [ask EXCEPT ![c] = NoAsk]
  /\ UNCHANGED <<accounts, removed>>

Next ==
  \E c \in Clients : Ask(c) \/ Add(c) \/ Move(c) \/ Remove(c) \/ Refuse(c) \/ Leave(c)

Spec == Init /\ [][Next]_<<accounts, removed, ask>>
=============================================================================

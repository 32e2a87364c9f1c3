------------------------------ MODULE TokenGate ------------------------------
(***************************************************************************)
(* What the service promises about tokens, without saying how.  A key is a *)
(* token together with what it is shown as.  A key dies when its token     *)
(* expires or is revoked, and stays dead.  A request with a key that is    *)
(* dead when the request arrives is refused; any other request may be      *)
(* admitted or refused, as its key may die while it is being served.       *)
(***************************************************************************)
CONSTANTS Clients, NoKey

VARIABLES
  dead,   \* keys that no request arriving from now on can pass with
  ask     \* what each client is asking for

NoAsk == [state |-> "none", key |-> NoKey, doomed |-> FALSE]

Init == ask = [c \in Clients |-> NoAsk]

\* The key is the one the client chose to show: any key.
Enter(c) ==
  /\ ask[c] = NoAsk
  /\ LET k == ask'[c].key
     IN  ask' = [ask EXCEPT ![c] = [state |-> "asking", key |-> k,
                                    doomed |-> k \in dead]]

Admit(c) ==
  /\ ask[c].state = "asking" /\ ~ask[c].doomed
  /\ ask' = [ask EXCEPT ![c].state = "admitted"]

Refuse(c) ==
  /\ ask[c].state = "asking"
  /\ ask' = [ask EXCEPT ![c].state = "refused"]

Leave(c) ==
  /\ ask[c].state \in {"admitted", "refused"}
  /\ ask' = [ask EXCEPT ![c] = NoAsk]

\* Keys may die at any step, and none comes back to life.
Next ==
  /\ dead \subseteq dead'
  /\ \/ \E c \in Clients : Enter(c) \/ Admit(c) \/ Refuse(c) \/ Leave(c)
     \/ UNCHANGED ask

Spec == Init /\ [][Next]_<<dead, ask>>
=============================================================================

---------------------------- MODULE HttpService ----------------------------
(***************************************************************************)
(* What a client may rely on at one HTTP connection: requests are answered *)
(* once each and in the order in which they were sent, and nothing happens *)
(* after the connection is closed.  The server may close at any time.      *)
(***************************************************************************)
EXTENDS Sequences, SequencesExt

CONSTANT Conns
VARIABLES phase,      \* "new", "open" or "closed"
          sent,       \* the requests of the client, in order
          answered    \* the requests that have been answered, in order

Init == /\ phase = [c \in Conns |-> "new"]
        /\ sent = [c \in Conns |-> <<>>] /\ answered = [c \in Conns |-> <<>>]

Connect(c) == /\ phase[c] = "new" /\ phase' = [phase EXCEPT ![c] = "open"]
              /\ UNCHANGED <<sent, answered>>

Ask(c) == /\ phase[c] # "new"
          /\ IsStrictPrefix(sent[c], sent'[c])
          /\ sent' = [sent EXCEPT ![c] = sent'[c]]
          /\ UNCHANGED <<phase, answered>>

\* One read may answer several requests, and close after the last of them.
Answer(c) == /\ phase[c] = "open" /\ phase'[c] \in {"open", "closed"}
             /\ IsStrictPrefix(answered[c], answered'[c])
             /\ IsPrefix(answered'[c], sent[c])
             /\ phase' = [phase EXCEPT ![c] = phase'[c]]
             /\ answered' = [answered EXCEPT ![c] = answered'[c]]
             /\ UNCHANGED sent

Close(closing) == /\ closing # {} /\ \A c \in closing : phase[c] = "open"
                  /\ phase' = [c \in Conns |-> IF c \in closing THEN "closed" ELSE phase[c]]
                  /\ UNCHANGED <<sent, answered>>

Next == \/ \E c \in Conns : Connect(c) \/ Ask(c) \/ Answer(c)
        \/ \E closing \in SUBSET Conns : Close(closing)

Spec == Init /\ [][Next]_<<phase, sent, answered>>
=============================================================================

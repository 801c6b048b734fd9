------------------------------- MODULE Postbox -------------------------------
(***************************************************************************)
(* What the signaling hub promises to the code that uses it, without its   *)
(* channels, goroutines, counters and shutdown: a directory of clients by  *)
(* ID, and one line of accepted messages that is served in order.  The     *)
(* message at the head of the line is handed at most once, to the client   *)
(* the directory names at that moment, or it is lost.                      *)
(***************************************************************************)
EXTENDS Naturals, Sequences

CONSTANTS Id,         \* client IDs
          Client,     \* client objects
          IDOf,       \* the ID of each client object
          NoClient    \* "the directory has no entry"

VARIABLES directory,  \* the client filed under each ID, or NoClient
          line,       \* accepted, unserved messages: [clientID, message]
          inbox,      \* what each client has been handed, in order
          taken       \* how many messages have been accepted into the line

vars == <<directory, line, inbox, taken>>

Init == /\ directory = [id \in Id |-> NoClient]
        /\ line = <<>>
        /\ inbox = [c \in Client |-> <<>>]
        /\ taken = 0

\* An ID in use is never given to a second client.
Join(c) == /\ directory[IDOf[c]] = NoClient
           /\ directory' = [directory EXCEPT ![IDOf[c]] = c]
           /\ UNCHANGED <<line, inbox, taken>>

Leave(id) == /\ directory[id] # NoClient
             /\ directory' = [directory EXCEPT ![id] = NoClient]
             /\ UNCHANGED <<line, inbox, taken>>

\* A message is identified by the turn at which it was accepted.
Accept(id) == /\ taken' = taken + 1
              /\ line' = Append(line, [clientID |-> id, message |-> taken'])
              /\ UNCHANGED <<directory, inbox>>

HandOver == /\ line # <<>>
            /\ LET c == directory[Head(line).clientID]
               IN  /\ c # NoClient
                   /\ inbox' = [inbox EXCEPT ![c] = Append(@, Head(line).message)]
            /\ line' = Tail(line)
            /\ UNCHANGED <<directory, taken>>

Lose == /\ line # <<>>
        /\ line' = Tail(line)
        /\ UNCHANGED <<directory, inbox, taken>>

Next == \/ \E c \in Client : Join(c)
        \/ \E id \in Id : Leave(id)
        \/ \E id \in Id : Accept(id)
        \/ HandOver
        \/ Lose

Spec == Init /\ [][Next]_vars
=============================================================================

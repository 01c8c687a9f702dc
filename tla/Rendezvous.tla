----------------------------- MODULE Rendezvous -----------------------------
(***************************************************************************)
(* What a signaling broker promises, whatever it is built from: every      *)
(* session has one seat per role.  A seat is given only to somebody who    *)
(* has never had one, and only if it is free or its whole session has      *)
(* expired; nobody changes seats and nobody gets a seat back.              *)
(***************************************************************************)
EXTENDS Integers

CONSTANTS Session, Role, Handle, Free

VARIABLES
  seat,    \* [Session -> [Role -> Handle or Free]]
  entered, \* everybody who ever got a seat
  expired  \* sessions idle for too long, which may be cleared

rvars == <<seat, entered, expired>>

Empty == [r \in Role |-> Free]

RInit ==
  /\ seat = [s \in Session |-> Empty]
  /\ entered = {}
  /\ expired = {}

\* The seats once the expired sessions E have been cleared.
Cleared(E) == [s \in Session |-> IF s \in E THEN Empty ELSE seat[s]]

Join(h, s, r) ==
  \E E \in SUBSET expired :
    /\ h \notin entered
    /\ Cleared(E)[s][r] = Free
    /\ seat' = [Cleared(E) EXCEPT ![s][r] = h]
    /\ entered' = entered \cup {h}
    /\ expired' = expired \ (E \cup {s})

\* Activity in s, in which the holders of the roles R lose their seats.
Release(s, R) ==
  /\ seat' = [seat EXCEPT ![s] = [r \in Role |-> IF r \in R THEN Free ELSE @[r]]]
  /\ expired' = expired \ {s}
  /\ UNCHANGED entered

Clear(E) ==
  /\ seat' = Cleared(E)
  /\ expired' = expired \ E
  /\ UNCHANGED entered

Expire ==
  /\ expired' \in SUBSET Session
  /\ expired \subseteq expired'
  /\ UNCHANGED <<seat, entered>>

RNext ==
  \/ \E h \in Handle, s \in Session, r \in Role : Join(h, s, r)
  \/ \E s \in Session, R \in SUBSET Role : Release(s, R)
  \/ \E E \in SUBSET expired : Clear(E)
  \/ Expire

RSpec == RInit /\ [][RNext]_rvars
=============================================================================

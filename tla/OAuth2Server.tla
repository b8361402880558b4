------------------------------ MODULE OAuth2Server ------------------------------
(***************************************************************************)
(* The OAuth 2.0 handlers appended to src/transactions/transactions.cpp   *)
(* (lines 703-944).  The only state the server shares between its         *)
(* concurrent handlers is sessionStore.state, the set of CSRF states it    *)
(* has handed out and not yet redeemed, guarded by sessionStore's mutex.   *)
(* A state is a model value (16 random letters, which do not collide in    *)
(* practice).  The provider behind TokenURL is outside the program: a call *)
(* to it either fails or returns a token.  An Authorization header is a    *)
(* record [bearer, token]: whether it starts with "Bearer ", and the rest. *)
(* A handler's answer is its HTTP status.                                  *)
(***************************************************************************)
EXTENDS Naturals

\* GenerateState: the new state s, stored under the lock
GenerateState(store, s) == store \cup {s}

\* A faulty validation that does not delete the state it accepts.
ValidateStateKeep(store, s) == [ok |-> s \in store, store |-> store]

\* the critical section of OAuth2TokenHandler: a stored state is deleted
\* before the lock is released; any other is refused
ValidateState(store, s) == [ok |-> s \in store, store |-> store \ {s}]

\* OAuth2TokenHandler after the state check: exchangeCodeForToken posts to
\* TokenURL; a failed call answers 500, a token is encoded with 200
TokenAnswer(exchanged) == IF exchanged THEN 200 ELSE 500

\* validateToken: any non-empty string
ValidateToken(t) == t # ""

\* OAuth2TokenValidationHandler
TokenValidationAnswer(h) == IF h.bearer /\ ValidateToken(h.token) THEN 200 ELSE 401

\* OAuth2TokenRevocationHandler; revokeToken only logs and never fails
RevokeToken(t) == TRUE
TokenRevocationAnswer(h) == IF h.bearer /\ RevokeToken(h.token) THEN 200 ELSE 401

\* OAuth2RefreshTokenHandler with refreshAccessToken's call to TokenURL
RefreshAnswer(rt, exchanged) ==
    IF rt = "" THEN 400 ELSE IF exchanged THEN 200 ELSE 500

=============================================================================

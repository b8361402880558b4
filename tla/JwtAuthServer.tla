------------------------------ MODULE JwtAuthServer ------------------------------
(***************************************************************************)
(* The JWT authentication server appended to                               *)
(* src/transactions/transactions.cpp (lines 503-700).                     *)
(*                                                                         *)
(* userDB maps user names to bcrypt hashes; a hash is a record of the      *)
(* password it was made from (bcrypt's salt only makes two hashes of one   *)
(* password differ, which no handler looks at).  A JWT is a record         *)
(* [user, exp]: it is signed with jwtKey, so the only tokens a client can  *)
(* hold are ones the server made.  Time is counted in ticks of 30 seconds: *)
(* a token lives 5 minutes (10 ticks), and /refresh only renews one with  *)
(* at most 30 seconds (1 tick) left.                                      *)
(***************************************************************************)
EXTENDS Naturals, Integers, TLC

ExpiresIn == 10
RefreshWindow == 1

\* no "token" cookie
NoToken == [user |-> "", exp |-> 0]

\* hashPassword and checkPasswordHash
HashPassword(pw) == [bcrypt |-> pw]
CheckPasswordHash(pw, h) == h.bcrypt = pw

\* registerHandler's check: userDB[user.Username] exists
UserExists(db, name) == name \in DOMAIN db

\* registerHandler's write: userDB[user.Username] = hashedPassword
StoreUser(db, name, h) == (name :> h) @@ db

\* loginHandler on a decoded request: a token expiring ExpiresIn from now,
\* or 401
Login(db, name, pw, now) ==
    IF name \in DOMAIN db /\ CheckPasswordHash(pw, db[name])
    THEN [code |-> 200, token |-> [user |-> name, exp |-> now + ExpiresIn]]
    ELSE [code |-> 401, token |-> NoToken]

\* jwt.ParseWithClaims with StandardClaims.Valid: exp not yet passed
TokenValid(tok, now) == tok # NoToken /\ now <= tok.exp

\* authMiddleware: 401 without a cookie or with an invalid token; 0 lets
\* the request through to the handler
AuthMiddleware(tok, now) == IF TokenValid(tok, now) THEN 0 ELSE 401

\* refreshHandler behind the middleware: the same parse, then 400 while
\* more than 30 seconds are left, else a token with a new expiry
Refresh(tok, now) ==
    IF ~TokenValid(tok, now) THEN [code |-> 401, token |-> tok]
    ELSE IF tok.exp - now > RefreshWindow THEN [code |-> 400, token |-> tok]
    ELSE [code |-> 200, token |-> [tok EXCEPT !.exp = now + ExpiresIn]]

\* logoutHandler: an empty cookie that expires now, which the browser drops
Logout == [code |-> 200, token |-> NoToken]

\* the cookie a browser sends: none once its Expires has passed
CookieSent(jar, now) == IF now < jar.exp THEN jar ELSE NoToken

=============================================================================

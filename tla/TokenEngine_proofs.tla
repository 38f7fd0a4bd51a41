------------------------ MODULE TokenEngine_proofs ------------------------
(***************************************************************************)
(* The theorems about TokenEngine, for any servers, users, keys, expiry    *)
(* times and any number of tokens and lives.                               *)
(***************************************************************************)
EXTENDS TokenEngine, TLAPS

(* In the life of the process in which a text was exchanged, it stays      *)
(* revoked; no token is from a life to come.                               *)
Spent ==
  \A token \in DOMAIN issued :
    /\ issued[token].life <= life
    /\ issued[token].parent # NoParent /\ issued[token].life = life
         => issued[token].parent \in revoked

IInv == TypeOK /\ Spent /\ RefreshOnce

-----------------------------------------------------------------------------
LEMMA Fields ==
  ASSUME TypeOK, NEW token \in DOMAIN issued
  PROVE  /\ token \in Nat
         /\ issued[token].user \in Users
         /\ issued[token].expiry \in Nat
         /\ issued[token].life \in Nat
<1>1. issued \in Seq(Tokens)
  BY DEF TypeOK
<1>2. issued[token] \in Tokens /\ token \in Nat
  BY <1>1
<1> QED BY <1>2 DEF Tokens

(* What is issued for a server, a user and a parent that fits them.        *)

LEMMA AppendTwo ==
  ASSUME NEW S, NEW s \in Seq(S), NEW a \in S, NEW b \in S
  PROVE  /\ s \o << a, b >> \in Seq(S)
         /\ DOMAIN (s \o << a, b >>) = DOMAIN s \cup {Len(s) + 1, Len(s) + 2}
         /\ \A i \in DOMAIN s : (s \o << a, b >>)[i] = s[i]
         /\ (s \o << a, b >>)[Len(s) + 1] = a
         /\ (s \o << a, b >>)[Len(s) + 2] = b
  OBVIOUS

Parents == {NoParent} \cup (Nat \X Spellings)

LEMMA PairTyped ==
  ASSUME TypeOK, key # NoKey, NEW server \in Servers, NEW user \in Users,
         NEW parent \in Parents, NEW now \in Nat
  PROVE  /\ Token("Access", server, user, parent, now) \in Tokens
         /\ Token("Refresh", server, user, parent, now) \in Tokens
  BY TokenAssumption DEF TypeOK, Token, Tokens, TokenType, Lifetime, Parents

(* How GenerateTokenPair extends the history, if it does.                  *)
LEMMA Generated ==
  ASSUME TypeOK, NEW server \in Servers, NEW user \in Users,
         NEW parent \in Parents, NEW now \in Nat,
         GenerateTokenPair(server, user, parent, now)
  PROVE  /\ issued' \in Seq(Tokens)
         /\ DOMAIN issued \subseteq DOMAIN issued'
         /\ \A t \in DOMAIN issued : issued'[t] = issued[t]
         /\ \A t \in DOMAIN issued' \ DOMAIN issued :
              \E type \in TokenType :
                /\ issued'[t] = Token(type, server, user, parent, now)
                /\ type = "Access" <=> t = Len(issued) + 1
                /\ t \in {Len(issued) + 1, Len(issued) + 2}
                /\ key # NoKey
<1>1. CASE UNCHANGED issued
  BY <1>1 DEF TypeOK
<1>2. CASE /\ key # NoKey
           /\ issued' = issued \o Pair(server, user, parent, now)
  <2> DEFINE a == Token("Access", server, user, parent, now)
             b == Token("Refresh", server, user, parent, now)
  <2>1. a \in Tokens /\ b \in Tokens
    BY <1>2, PairTyped
  <2>2. issued \in Seq(Tokens) /\ issued' = issued \o << a, b >>
    BY <1>2 DEF TypeOK, Pair
  <2> HIDE DEF a, b
  <2>3. /\ issued' \in Seq(Tokens)
        /\ DOMAIN issued' = DOMAIN issued \cup {Len(issued) + 1, Len(issued) + 2}
        /\ \A t \in DOMAIN issued : issued'[t] = issued[t]
        /\ issued'[Len(issued) + 1] = a
        /\ issued'[Len(issued) + 2] = b
    BY <2>1, <2>2, AppendTwo
  <2>4. ASSUME NEW t \in DOMAIN issued' \ DOMAIN issued
        PROVE  \E type \in TokenType :
                 /\ issued'[t] = Token(type, server, user, parent, now)
                 /\ type = "Access" <=> t = Len(issued) + 1
                 /\ t \in {Len(issued) + 1, Len(issued) + 2}
                 /\ key # NoKey
    <3>0. Len(issued) \in Nat
      BY <2>2
    <3>1. CASE t = Len(issued) + 1
      BY <1>2, <2>3, <3>1 DEF a, TokenType
    <3>2. CASE t = Len(issued) + 2
      BY <1>2, <2>3, <3>0, <3>2 DEF b, TokenType
    <3> QED BY <2>3, <3>1, <3>2
  <2> QED BY <2>3, <2>4
<1> QED BY <1>1, <1>2 DEF GenerateTokenPair

-----------------------------------------------------------------------------
(* A step that issues tokens for a text that was not exchanged in this     *)
(* life.                                                                   *)
LEMMA IssueStep ==
  ASSUME IInv, NEW server \in Servers, NEW user \in Users,
         NEW parent \in Parents, NEW now \in Nat,
         GenerateTokenPair(server, user, parent, now),
         UNCHANGED << key, life >>, clock' \in Nat,
         revoked \subseteq revoked', revoked' \subseteq Texts,
         parent # NoParent => parent \notin revoked /\ parent \in revoked'
  PROVE  IInv'
<1>1. /\ issued' \in Seq(Tokens)
      /\ DOMAIN issued \subseteq DOMAIN issued'
      /\ \A t \in DOMAIN issued : issued'[t] = issued[t]
  BY Generated DEF IInv
<1>2. ASSUME NEW t \in DOMAIN issued' \ DOMAIN issued
      PROVE  \E type \in TokenType :
               /\ issued'[t] = Token(type, server, user, parent, now)
               /\ type = "Access" <=> t = Len(issued) + 1
               /\ t \in {Len(issued) + 1, Len(issued) + 2}
               /\ key # NoKey
  BY Generated DEF IInv
<1>3. ASSUME NEW t \in DOMAIN issued' \ DOMAIN issued
      PROVE  /\ issued'[t].parent = parent
             /\ issued'[t].life = life
             /\ issued'[t].creation = now
             /\ issued'[t].expiry = now + Lifetime(issued'[t].type)
             /\ issued'[t].type = "Access" <=> t = Len(issued) + 1
             /\ t \in {Len(issued) + 1, Len(issued) + 2}
  BY <1>2 DEF Token
<1>4. life \in Nat /\ Len(issued) \in Nat
  BY DEF IInv, TypeOK
<1>5. TypeOK'
  <2>1. ASSUME NEW t \in DOMAIN issued'
        PROVE  issued'[t].expiry = issued'[t].creation + Lifetime(issued'[t].type)
    BY <1>1, <1>3 DEF IInv, TypeOK
  <2>2. revoked' \subseteq Texts'
    BY <1>1 DEF Texts
  <2> QED BY <1>1, <2>1, <2>2 DEF IInv, TypeOK, Lifetime
<1>6. Spent'
  <2> SUFFICES ASSUME NEW t \in DOMAIN issued'
               PROVE  /\ issued'[t].life <= life
                      /\ issued'[t].parent # NoParent /\ issued'[t].life = life
                           => issued'[t].parent \in revoked'
    BY DEF Spent
  <2>1. CASE t \in DOMAIN issued
    BY <1>1, <2>1 DEF IInv, Spent
  <2>2. CASE t \notin DOMAIN issued
    BY <1>3, <1>4, <2>2
  <2> QED BY <2>1, <2>2
<1>7. RefreshOnce'
  <2> SUFFICES ASSUME NEW t1 \in DOMAIN issued', NEW t2 \in DOMAIN issued',
                      issued'[t1].parent = issued'[t2].parent,
                      issued'[t1].parent # NoParent,
                      issued'[t1].life = issued'[t2].life,
                      issued'[t1].type = issued'[t2].type
               PROVE  t1 = t2
    BY DEF RefreshOnce
  <2>1. CASE t1 \in DOMAIN issued /\ t2 \in DOMAIN issued
    BY <1>1, <2>1 DEF IInv, RefreshOnce
  <2>2. ASSUME NEW old \in DOMAIN issued, NEW new \in DOMAIN issued' \ DOMAIN issued,
               issued'[old].parent = issued'[new].parent,
               issued'[old].parent # NoParent,
               issued'[old].life = issued'[new].life
        PROVE  FALSE
    <3>1. issued[old].parent = parent /\ issued[old].life = life /\ parent # NoParent
      BY <1>1, <1>3, <2>2
    <3>2. parent \in revoked
      BY <3>1 DEF IInv, Spent
    <3> QED BY <3>1, <3>2
  <2>3. CASE t1 \notin DOMAIN issued /\ t2 \notin DOMAIN issued
    BY <1>3, <1>4, <2>3
  <2> QED BY <2>1, <2>2, <2>3
<1> QED BY <1>5, <1>6, <1>7 DEF IInv

-----------------------------------------------------------------------------
(* Every step preserves IInv. *)

LEMMA InitIInv == Init => IInv
  BY DEF Init, IInv, TypeOK, Spent, RefreshOnce, Texts

LEMMA LoginStep ==
  ASSUME IInv, NEW server \in Servers, NEW user \in Users, Login(server, user)
  PROVE  IInv'
<1>1. GenerateTokenPair(server, user, NoParent, clock) /\ UNCHANGED << key, revoked, clock, life >>
  BY DEF Login
<1>2. revoked' \subseteq Texts /\ NoParent \in Parents /\ clock \in Nat
  BY <1>1 DEF IInv, TypeOK, Parents
<1> QED BY <1>1, <1>2, IssueStep

(* What a rotation does, once its text was found valid.                    *)
LEMMA RotateStep ==
  ASSUME TypeOK, NEW text \in Texts, NEW server \in Servers, Rotate(text, server)
  PROVE  /\ GenerateTokenPair(server, Content(text).user, text, clock')
         /\ Content(text).user \in Users
         /\ text \in Parents
         /\ clock' \in Nat
         /\ UNCHANGED << key, life >>
<1>1. text[1] \in DOMAIN issued /\ text \in (DOMAIN issued) \X Spellings
  BY DEF Texts
<1>2. text[1] \in Nat /\ Content(text).user \in Users
  BY <1>1, Fields DEF Content
<1>3. text \in Nat \X Spellings
  BY <1>1, <1>2
<1> QED BY <1>2, <1>3, TokenAssumption DEF Rotate, Parents, Instants

LEMMA RefreshStep ==
  ASSUME IInv, NEW text \in Texts, NEW server \in Servers,
         RefreshTokenPair(text, server)
  PROVE  IInv'
<1> DEFINE user == Content(text).user
<1>1. /\ Valid(text, "Refresh", server)
      /\ revoked' = revoked \cup {text}
      /\ Rotate(text, server)
  BY DEF RefreshTokenPair
<1>2. /\ GenerateTokenPair(server, user, text, clock')
      /\ user \in Users /\ text \in Parents /\ clock' \in Nat
      /\ UNCHANGED << key, life >>
  BY <1>1, RotateStep DEF IInv
<1>3. revoked' \subseteq Texts
  BY <1>1 DEF IInv, TypeOK
<1>4. text \notin revoked /\ text \in revoked' /\ revoked \subseteq revoked'
  BY <1>1 DEF Valid, ValidAt, IsTokenRevoked
<1> HIDE DEF user
<1> QED BY <1>2, <1>3, <1>4, IssueStep

LEMMA RevokeStep ==
  ASSUME IInv, NEW text \in Texts, RevokeToken(text)
  PROVE  IInv'
  BY DEF IInv, RevokeToken, TypeOK, Spent, RefreshOnce, Texts

LEMMA ClockStep ==
  ASSUME IInv, Tick \/ SetBack
  PROVE  IInv'
<1>1. clock' \in Nat /\ UNCHANGED << key, revoked, life, issued >>
  BY DEF IInv, TypeOK, Tick, SetBack
<1> QED BY <1>1 DEF IInv, TypeOK, Spent, RefreshOnce, Texts

LEMMA RestartStep ==
  ASSUME IInv, Restart
  PROVE  IInv'
<1>1. /\ life \in Nat /\ life' = life + 1 /\ revoked' = {}
      /\ key' \in Keys \cup {NoKey} /\ UNCHANGED << clock, issued >>
  BY DEF IInv, TypeOK, Restart
<1>2. TypeOK' /\ RefreshOnce'
  BY <1>1 DEF IInv, TypeOK, RefreshOnce, Texts
<1>3. \A token \in DOMAIN issued : issued[token].life \in Nat /\ issued[token].life <= life
  BY Fields DEF IInv, Spent
<1>4. Spent'
  BY <1>1, <1>3 DEF Spent
<1> QED BY <1>2, <1>4 DEF IInv

LEMMA NextIInv == IInv /\ [Next]_vars => IInv'
<1> SUFFICES ASSUME IInv, [Next]_vars PROVE IInv'
  OBVIOUS
<1>1. CASE UNCHANGED vars
  BY <1>1 DEF vars, IInv, TypeOK, Spent, RefreshOnce, Texts
<1>2. CASE \E server \in Servers, user \in Users : Login(server, user)
  BY <1>2, LoginStep
<1>3. CASE \E text \in Texts, server \in Servers : RefreshTokenPair(text, server)
  BY <1>3, RefreshStep
<1>4. CASE \E text \in Texts : RevokeToken(text)
  BY <1>4, RevokeStep
<1>5. CASE Tick \/ SetBack
  BY <1>5, ClockStep
<1>6. CASE Restart
  BY <1>6, RestartStep
<1> QED BY <1>1, <1>2, <1>3, <1>4, <1>5, <1>6 DEF Next

-----------------------------------------------------------------------------
(* IInv holds in every state.                                              *)
THEOREM Invariance == Spec => []IInv
  BY InitIInv, NextIInv, PTL DEF Spec

(* The types, the tokens' lifetimes included.                              *)
THEOREM TypeCorrect == Spec => []TypeOK
<1>1. IInv => TypeOK
  BY DEF IInv
<1> QED BY <1>1, Invariance, PTL

(* In one life of the process RefreshTokenPair exchanges a text for at     *)
(* most one pair.                                                          *)
THEOREM RefreshedOnce == Spec => []RefreshOnce
<1>1. IInv => RefreshOnce
  BY DEF IInv
<1> QED BY <1>1, Invariance, PTL

-----------------------------------------------------------------------------
(* What a step may do to the tokens issued before, and which it issues.    *)
LEMMA IssuedByStep ==
  ASSUME IInv, Next
  PROVE  /\ DOMAIN issued \subseteq DOMAIN issued'
         /\ \A t \in DOMAIN issued : issued'[t] = issued[t]
         /\ \A t \in DOMAIN issued' \ DOMAIN issued :
              \/ issued'[t].parent = NoParent
              \/ \E text \in Texts, server \in Servers :
                   /\ Valid(text, "Refresh", server)
                   /\ issued'[t].parent = text
                   /\ issued'[t].server = server
                   /\ issued'[t].user = Content(text).user
                   /\ issued'[t].key = key
<1>1. CASE \E server \in Servers, user \in Users : Login(server, user)
  <2> PICK server \in Servers, user \in Users : Login(server, user)
    BY <1>1
  <2>1. GenerateTokenPair(server, user, NoParent, clock)
    BY DEF Login
  <2>2. NoParent \in Parents /\ clock \in Nat
    BY DEF Parents, IInv, TypeOK
  <2> QED BY <2>1, <2>2, Generated DEF IInv, Token
<1>2. CASE \E text \in Texts, server \in Servers : RefreshTokenPair(text, server)
  <2> PICK text \in Texts, server \in Servers : RefreshTokenPair(text, server)
    BY <1>2
  <2>1. Valid(text, "Refresh", server) /\ Rotate(text, server)
    BY DEF RefreshTokenPair
  <2>2. /\ GenerateTokenPair(server, Content(text).user, text, clock')
        /\ Content(text).user \in Users /\ text \in Parents /\ clock' \in Nat
    BY <2>1, RotateStep DEF IInv
  <2>3. /\ DOMAIN issued \subseteq DOMAIN issued'
        /\ \A t \in DOMAIN issued : issued'[t] = issued[t]
        /\ \A t \in DOMAIN issued' \ DOMAIN issued :
             \E type \in TokenType :
               issued'[t] = Token(type, server, Content(text).user, text, clock')
    BY <2>2, Generated DEF IInv
  <2> QED BY <2>1, <2>3 DEF Token
<1>3. CASE UNCHANGED issued
  BY <1>3
<1> QED BY <1>1, <1>2, <1>3 DEF Next, RevokeToken, Tick, SetBack, Restart

(* Tokens obtained by rotation stay within the session of the token they   *)
(* were obtained with, which was live when it was looked at.               *)
THEOREM SessionKept == Spec => RotationKeepsSession
<1> DEFINE Within ==
      \A token \in DOMAIN issued' \ DOMAIN issued :
        LET new == issued'[token]
        IN  new.parent # NoParent =>
              /\ new.parent \in Texts \ revoked
              /\ Content(new.parent).type = "Refresh"
              /\ Content(new.parent).server = new.server
              /\ Content(new.parent).user = new.user
              /\ Content(new.parent).key = new.key
              /\ Content(new.parent).expiry > clock
<1>1. IInv /\ [Next]_vars => [Within]_vars
  <2> SUFFICES ASSUME IInv, Next,
                      NEW token \in DOMAIN issued' \ DOMAIN issued,
                      issued'[token].parent # NoParent
               PROVE  LET new == issued'[token]
                      IN  /\ new.parent \in Texts \ revoked
                          /\ Content(new.parent).type = "Refresh"
                          /\ Content(new.parent).server = new.server
                          /\ Content(new.parent).user = new.user
                          /\ Content(new.parent).key = new.key
                          /\ Content(new.parent).expiry > clock
    OBVIOUS
  <2> QED BY IssuedByStep DEF Valid, ValidAt, IsTokenRevoked, Decrypts
<1>2. Spec => [][Within]_vars
  BY <1>1, Invariance, PTL DEF Spec
<1> QED BY <1>2 DEF RotationKeepsSession

(* A text that ValidateAccessToken or ValidateRefreshToken refuses for     *)
(* what it is stays refused while the process lives and its clock is not   *)
(* set back.                                                               *)
THEOREM StaysRejected == Spec => RejectedForGood
<1> DEFINE Lasting ==
      life' = life /\ clock' >= clock =>
        \A text \in Texts, type \in TokenType, server \in Servers :
          ~Valid(text, type, server) => ~Valid(text, type, server)'
<1>1. IInv /\ [Next]_vars => [Lasting]_vars
  <2> SUFFICES ASSUME IInv, Next, life' = life, clock' >= clock,
                      NEW text \in Texts, NEW type \in TokenType,
                      NEW server \in Servers,
                      Valid(text, type, server)'
               PROVE  Valid(text, type, server)
    OBVIOUS
  <2>1. text[1] \in DOMAIN issued
    BY DEF Texts
  <2>2. Content(text)' = Content(text)
    BY <2>1, IssuedByStep DEF Content
  <2>3. key' = key /\ revoked \subseteq revoked'
    <3>1. life \in Nat
      BY DEF IInv, TypeOK
    <3> QED BY <3>1 DEF Next, Login, RefreshTokenPair, Rotate, RevokeToken, Tick,
                       SetBack, Restart
  <2>4. clock \in Nat /\ clock' \in Nat /\ Content(text).expiry \in Nat
    <3>1. IInv'
      BY NextIInv
    <3> QED BY <2>1, <3>1, Fields DEF IInv, TypeOK, Content
  <2> QED BY <2>2, <2>3, <2>4 DEF Valid, ValidAt, IsTokenRevoked, FitsMaximum, Decrypts
<1>2. Spec => [][Lasting]_vars
  BY <1>1, Invariance, PTL DEF Spec
<1> QED BY <1>2 DEF RejectedForGood
=============================================================================

---------------------------- MODULE TokenEngine ----------------------------
(***************************************************************************)
(* The class TokenEngine: access and refresh tokens, rotation, and the     *)
(* set of revoked tokens, which lives as long as the process.              *)
(*                                                                         *)
(* A token is known here by its number, in the order of issue, and issued  *)
(* says what is encrypted in it; every encryption draws a fresh random IV. *)
(* Clients present texts.  Base64UrlDecode stops at a padding character,   *)
(* has two characters for each of two values and drops the bits that fill  *)
(* no byte, so a token has several spellings; a text is a token and one of *)
(* its spellings.  No operation waits, and the gateway is one thread: each *)
(* operation is one step, but the clock may move between two readings.     *)
(***************************************************************************)
EXTENDS Naturals, Sequences, FiniteSets

CONSTANTS
  Servers,        (* server identifiers, the backends' identifiers          *)
  Users,          (* user identifiers                                       *)
  Spellings,      (* the ways to spell a token                              *)
  TooLong,        (* server, user and spelling that make a text longer than *)
                  (* msc_un32MaxTokenSize                                   *)
  Keys,           (* AES keys the operator may configure                    *)
  NoKey,          (* no key, or AES is not available: not initialized       *)
  AccessExpiry,   (* m_un32AccessExpirySeconds                              *)
  RefreshExpiry,  (* m_un32RefreshExpirySeconds                             *)
  MaxTime,        (* bound: the clock                                       *)
  MaxIssued,      (* bound: tokens issued                                   *)
  MaxLogins,      (* bound: a login is one of the first pairs issued        *)
  MaxRevoked,     (* bound: texts revoked when RevokeToken is called        *)
  MaxLives        (* bound: times the process is started                    *)

ASSUME TokenAssumption ==
  /\ TooLong \subseteq Servers \X Users \X Spellings
  /\ NoKey \notin Keys
  /\ {AccessExpiry, RefreshExpiry} \subseteq Nat
  /\ {MaxTime, MaxIssued, MaxLogins, MaxRevoked, MaxLives} \subseteq Nat

VARIABLES
  key,      (* the key of m_sAesGcm                                         *)
  revoked,  (* m_stdszRevokedTokens, a set of texts                         *)
  clock,    (* system_clock, in seconds                                     *)
  life,     (* how many times the process has been started                  *)
  issued    (* history: what the issued tokens contain                      *)

vars == << key, revoked, clock, life, issued >>

TokenType == {"Access", "Refresh"}

NoParent == << >>

Instants == 0..MaxTime

Texts == (DOMAIN issued) \X Spellings

Init ==
  /\ key \in Keys \cup {NoKey}
  /\ revoked = {}
  /\ clock = 0
  /\ life = 1
  /\ issued = << >>

-----------------------------------------------------------------------------
(* Tokens. *)

Lifetime(type) == IF type = "Access" THEN AccessExpiry ELSE RefreshExpiry

(* SerializePayload and EncryptToken.  parent, the text for which a token  *)
(* was issued, and life are history.                                       *)
Token(type, server, user, parent, now) ==
  [server |-> server, user |-> user, type |-> type, creation |-> now,
   expiry |-> now + Lifetime(type), key |-> key, parent |-> parent, life |-> life]

(* both tokens get the lifetime of the access token *)
PairWithOneExpiry(server, user, parent, now) ==
  LET access == Token("Access", server, user, parent, now)
  IN  << access, [access EXCEPT !.type = "Refresh"] >>

Pair(server, user, parent, now) ==
  << Token("Access", server, user, parent, now),
     Token("Refresh", server, user, parent, now) >>

(* GenerateTokenPair, which reads the clock as now.  Either encryption may *)
(* fail, for want of a descriptor or of random bytes; the caller gets no   *)
(* token then.                                                             *)
GenerateTokenPair(server, user, parent, now) ==
  \/ /\ key # NoKey
     /\ Len(issued) + 2 <= MaxIssued
     /\ issued' = issued \o Pair(server, user, parent, now)
  \/ UNCHANGED issued

Content(text) == issued[text[1]]

(* AesGcm::Decrypt can find the tag right. *)
Decrypts(text) == key # NoKey /\ Content(text).key = key

FitsMaximum(text) == << Content(text).server, Content(text).user, text[2] >> \notin TooLong

IsTokenRevoked(text) == text \in revoked

(* the server identifier in the token is not compared *)
ValidForAnyServer(text, type, server) ==
  /\ ~IsTokenRevoked(text)
  /\ FitsMaximum(text)
  /\ Decrypts(text)
  /\ Content(text).type = type
  /\ Content(text).expiry > clock

(* What ValidateAccessToken and ValidateRefreshToken ask of a text.  They  *)
(* answer no to a valid one, too, when the kernel refuses to decrypt at    *)
(* that moment, for want of a descriptor or of memory; nothing changes     *)
(* then, so that every use of ValidAt stands for "may be accepted".        *)
ValidAt(text, type, server, now) ==
  /\ ~IsTokenRevoked(text)
  /\ FitsMaximum(text)
  /\ Decrypts(text)
  /\ Content(text).type = type
  /\ Content(text).server = server
  /\ Content(text).expiry > now

Valid(text, type, server) == ValidAt(text, type, server, clock)

-----------------------------------------------------------------------------
(* The operations. *)

(* HandleLoginResponse, when a backend vouches for a user.                 *)
Login(server, user) ==
  /\ Len(issued) < 2 * MaxLogins
  /\ GenerateTokenPair(server, user, NoParent, clock)
  /\ UNCHANGED << key, revoked, clock, life >>

(* The clock is read to validate the old text and again for the new pair;  *)
(* a second may begin, or the clock be set, in between.                    *)
Rotate(text, server) ==
  /\ clock' \in Instants
  /\ GenerateTokenPair(server, Content(text).user, text, clock')
  /\ UNCHANGED << key, life >>

(* the old refresh token is not revoked *)
RefreshWithoutRotation(text, server) ==
  /\ Valid(text, "Refresh", server)
  /\ Rotate(text, server)
  /\ UNCHANGED revoked

(* The old text is revoked first; it stays so when the generation fails.   *)
RefreshTokenPair(text, server) ==
  /\ Valid(text, "Refresh", server)
  /\ revoked' = revoked \cup {text}
  /\ Rotate(text, server)

RevokeToken(text) ==
  /\ Cardinality(revoked) < MaxRevoked
  /\ revoked' = revoked \cup {text}
  /\ UNCHANGED << key, clock, life, issued >>

(* revoked tokens are forgotten, as if all were access tokens *)
TickAndPurge ==
  /\ clock < MaxTime
  /\ clock' = clock + 1
  /\ revoked' = {text \in revoked : Content(text).creation + AccessExpiry > clock'}
  /\ UNCHANGED << key, life, issued >>

Tick ==
  /\ clock < MaxTime
  /\ clock' = clock + 1
  /\ UNCHANGED << key, revoked, life, issued >>

(* system_clock is the wall clock: the operator or NTP may set it back.    *)
SetBack ==
  /\ clock > 0
  /\ clock' \in 0..(clock - 1)
  /\ UNCHANGED << key, revoked, life, issued >>

(* A crash or a stop, and the service manager's restart: Initialize with   *)
(* whatever key the configuration has then.                                *)
Restart ==
  /\ life < MaxLives
  /\ life' = life + 1
  /\ revoked' = {}
  /\ key' \in Keys \cup {NoKey}
  /\ UNCHANGED << clock, issued >>

Next ==
  \/ \E server \in Servers, user \in Users : Login(server, user)
  \/ \E text \in Texts, server \in Servers : RefreshTokenPair(text, server)
  \/ \E text \in Texts : RevokeToken(text)
  \/ Tick
  \/ SetBack
  \/ Restart

Spec == Init /\ [][Next]_vars

-----------------------------------------------------------------------------
Tokens ==
  [server : Servers, user : Users, type : TokenType, creation : Nat, expiry : Nat,
   key : Keys, parent : {NoParent} \cup (Nat \X Spellings), life : Nat]

(* Besides the types: every token has the lifetime of its type.            *)
TypeOK ==
  /\ key \in Keys \cup {NoKey}
  /\ clock \in Nat
  /\ life \in Nat
  /\ issued \in Seq(Tokens)
  /\ revoked \subseteq Texts
  /\ \A token \in DOMAIN issued :
       issued[token].expiry = issued[token].creation + Lifetime(issued[token].type)

(* In one life of the process a text is exchanged for at most one new      *)
(* pair, whatever is revoked, expires or fails in between, and even if the *)
(* clock is set back.  Another spelling of the same token is another text. *)
RefreshOnce ==
  \A t1, t2 \in DOMAIN issued :
    /\ issued[t1].parent = issued[t2].parent /\ issued[t1].parent # NoParent
    /\ issued[t1].life = issued[t2].life
    /\ issued[t1].type = issued[t2].type
    => t1 = t2

(* Rotation neither widens nor revives a session, restarts, changes of the *)
(* key and of the clock included: a token is issued for a text that is a   *)
(* spelling of a refresh token of the same server, user and key, which was *)
(* neither revoked nor expired when it was looked at, although the new     *)
(* token may bear a later time than its expiry.                            *)
RotationKeepsSession ==
  [][\A token \in DOMAIN issued' \ DOMAIN issued :
       LET new == issued'[token]
       IN  new.parent # NoParent =>
             /\ new.parent \in Texts \ revoked
             /\ Content(new.parent).type = "Refresh"
             /\ Content(new.parent).server = new.server
             /\ Content(new.parent).user = new.user
             /\ Content(new.parent).key = new.key
             /\ Content(new.parent).expiry > clock]_vars

(* A text that is refused for what it is, and not because the kernel could *)
(* not decrypt just then, is refused ever after, as long as the process    *)
(* lives and its clock is not set back.                                    *)
RejectedForGood ==
  [][life' = life /\ clock' >= clock =>
       \A text \in Texts, type \in TokenType, server \in Servers :
         ~Valid(text, type, server) => ~Valid(text, type, server)']_vars
=============================================================================

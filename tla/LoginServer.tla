---------------------------- MODULE LoginServer ----------------------------
(***************************************************************************)
(* octillion::LoginServer: guest accounts and the tokens that let a guest  *)
(* into the game server.  Every handler runs to its end on the core thread *)
(* of SslServer, so a handler is one step; the process may stop anywhere,  *)
(* also inside a handler, and is started again from the file "userdata".   *)
(***************************************************************************)
EXTENDS Integers

CONSTANTS
  Name,           \* user names a client may send
  Number,         \* what std::stoi reads after "guest#", for the names it can read
  Secret,         \* passwords; blowfish() tells them apart
  Address,        \* ip addresses
  UintSize,       \* how many values uint32_t has
  token_timeout_, \* life of a token
  MaxId,          \* bound on serial ids, a guard of NewId
  MaxKey,         \* bound on token keys drawn, a guard of LoginDone
  MaxTime         \* bound on the clock, a guard of Clock

ASSUME NumberAssumption == /\ DOMAIN Number \subseteq Name
                           /\ Number \in [DOMAIN Number -> Int]
ASSUME TimeoutAssumption == token_timeout_ \in Nat
ASSUME BoundAssumption == /\ UintSize \in Nat \ {0} /\ MaxId \in 0 .. UintSize - 1
                          /\ MaxKey \in Nat /\ MaxTime \in Nat

VARIABLES
  guest_data_,              \* accounts: serial id |-> password
  max_guest_serial_id_,
  unused_guest_serial_ids_, \* the unused ids the iterator has not passed
  userdata,                 \* the file: whole or torn, and its accounts
  tokens_,                  \* name |-> [ip, timestamp, key]
  now,                      \* system_clock
  reply_,                   \* result of the last reply
  given_,                   \* history: accounts given since a torn file was read
  lastkey_,                 \* history: keys drawn so far; a key is its number
  grants_                   \* history: the auth requests answered E_SUCCESS

accountVars == <<guest_data_, max_guest_serial_id_, unused_guest_serial_ids_,
                 userdata, given_>>
tokenVars == <<tokens_, lastkey_, grants_>>
loginVars == <<accountVars, tokenVars, now, reply_>>

Result == {"none", "E_SUCCESS", "E_FATAL", "E_DB_NO_RECORD", "E_DB_BAD_RECORD"}

NoUsers == [id \in {} |-> 0]

(* serial_name_to_serial_id: an int returned as uint32_t; 0 for a name     *)
(* that is not a guest's.                                                  *)
SerialId(name) == IF name \in DOMAIN Number THEN Number[name] % UintSize ELSE 0

Whole(users) == [whole |-> TRUE, users |-> users]

(* The file is truncated, then written user by user up to the closing      *)
(* bracket; without the bracket JsonW reads nothing of it.                 *)
Torn == [whole |-> FALSE, users |-> NoUsers]

-----------------------------------------------------------------------------
(* MUTANT of Holes: 0 is not reserved. *)
Holes_FromZero(users, max) == (0 .. max) \ DOMAIN users

(* The ids from 1 to max that no account has; 0 is reserved. *)
Holes(users, max) == (1 .. max) \ DOMAIN users

(* general_unused_guest_serial_ids: the largest id. *)
IsLargest(max, users) == \A id \in DOMAIN users : id <= max

(* The files the server may find: accounts it gave before, some of which   *)
(* may have been taken out of the file since.                              *)
UserFiles == UNION {[ids -> Secret] : ids \in SUBSET (1 .. MaxId)}

LoginInit ==
  /\ \E users \in UserFiles :
       /\ userdata = Whole(users)
       /\ guest_data_ = users
       /\ \E max \in DOMAIN users \cup {0} :
            /\ IsLargest(max, users)
            /\ max_guest_serial_id_ = max
            /\ unused_guest_serial_ids_ = Holes(users, max)
       /\ given_ = {<<id, users[id]>> : id \in DOMAIN users}
  /\ tokens_ = [name \in {} |-> 0]
  /\ now = 0
  /\ reply_ = "none"
  /\ lastkey_ = 0
  /\ grants_ = {}

(* The process stops, leaves the file f and is started again. *)
Restart(f) ==
  /\ userdata' = f
  /\ guest_data_' = f.users
  /\ \E max \in DOMAIN f.users \cup {0} :
       /\ IsLargest(max, f.users)
       /\ max_guest_serial_id_' = max
       /\ unused_guest_serial_ids_' = Holes(f.users, max)
  /\ tokens_' = [name \in {} |-> 0]
  /\ reply_' = "none"
  /\ given_' = IF f.whole THEN given_ ELSE {}
  /\ UNCHANGED <<lastkey_, grants_, now>>

-----------------------------------------------------------------------------
(* get_unused_serial_id: the next unused id, or one more than the largest. *)
NewId(id) ==
  /\ id <= MaxId
  /\ \/ /\ id \in unused_guest_serial_ids_
        /\ \A other \in unused_guest_serial_ids_ : id <= other
     \/ /\ unused_guest_serial_ids_ = {}
        /\ id = max_guest_serial_id_ + 1

(* std::map::insert keeps what is there. *)
Inserted(id, secret) ==
  [i \in DOMAIN guest_data_ \cup {id} |->
     IF i \in DOMAIN guest_data_ THEN guest_data_[i] ELSE secret]

(* RAND_bytes fails: the id is gone from the unused ones, nobody has it. *)
NewFails ==
  /\ \E id \in 1 .. MaxId :
       /\ NewId(id)
       /\ unused_guest_serial_ids_' = unused_guest_serial_ids_ \ {id}
  /\ reply_' = "E_FATAL"
  /\ UNCHANGED <<guest_data_, max_guest_serial_id_, userdata, given_, tokenVars, now>>

(* MUTANT of Saved: the file is written before the account is inserted. *)
Saved_Before(id, secret) == Whole(guest_data_)

(* serialize_guest_data after the insert *)
Saved(id, secret) == Whole(Inserted(id, secret))

NewDone ==
  /\ \E id \in 1 .. MaxId, secret \in Secret :
       /\ NewId(id)
       /\ unused_guest_serial_ids_' = unused_guest_serial_ids_ \ {id}
       /\ guest_data_' = Inserted(id, secret)
       /\ userdata' = Saved(id, secret)
       /\ given_' = given_ \cup {<<id, secret>>}
  /\ max_guest_serial_id_' = max_guest_serial_id_ + 1
  /\ reply_' = "E_SUCCESS"
  /\ UNCHANGED <<tokenVars, now>>

(* cmd_new *)
New == NewFails \/ NewDone

(* The process stops in the middle of serialize_guest_data, or between it  *)
(* and the reply.                                                          *)
CrashInNew ==
  \E id \in 1 .. MaxId, secret \in Secret :
    /\ NewId(id)
    /\ Restart(Torn) \/ Restart(Saved(id, secret))

Crash == Restart(userdata)

-----------------------------------------------------------------------------
Without(name) == [n \in DOMAIN tokens_ \ {name} |-> tokens_[n]]

KnownAccount(name) == SerialId(name) \in DOMAIN guest_data_

LoginNoRecord(name) ==
  /\ ~KnownAccount(name)
  /\ reply_' = "E_DB_NO_RECORD"
  /\ UNCHANGED <<accountVars, tokenVars, now>>

LoginBadRecord(name, secret) ==
  /\ KnownAccount(name)
  /\ guest_data_[SerialId(name)] # secret
  /\ reply_' = "E_DB_BAD_RECORD"
  /\ UNCHANGED <<accountVars, tokenVars, now>>

(* RAND_bytes fails. *)
LoginFails(name, secret) ==
  /\ KnownAccount(name)
  /\ guest_data_[SerialId(name)] = secret
  /\ reply_' = "E_FATAL"
  /\ UNCHANGED <<accountVars, tokenVars, now>>

(* A new token replaces the one the same name had. *)
LoginDone(name, secret, ip) ==
  /\ lastkey_ < MaxKey
  /\ KnownAccount(name)
  /\ guest_data_[SerialId(name)] = secret
  /\ lastkey_' = lastkey_ + 1
  /\ tokens_' = [n \in DOMAIN tokens_ \cup {name} |->
                   IF n = name
                   THEN [ip |-> ip, timestamp |-> now, key |-> lastkey_ + 1]
                   ELSE tokens_[n]]
  /\ reply_' = "E_SUCCESS"
  /\ UNCHANGED <<accountVars, grants_, now>>

(* cmd_login, from a client with an ip *)
Login ==
  \E name \in Name, secret \in Secret, ip \in Address :
    \/ LoginNoRecord(name)
    \/ LoginBadRecord(name, secret)
    \/ LoginFails(name, secret)
    \/ LoginDone(name, secret, ip)

-----------------------------------------------------------------------------
AuthNoRecord(name) ==
  /\ name \notin DOMAIN tokens_
  /\ reply_' = "E_DB_BAD_RECORD"
  /\ UNCHANGED <<accountVars, tokenVars, now>>

(* MUTANT of TimedOut: the sign of the comparison. *)
TimedOut_Never(name) == tokens_[name].timestamp - now > token_timeout_

TimedOut(name) == now - tokens_[name].timestamp > token_timeout_

(* A token that is late, or presented with another key or address, is      *)
(* erased.                                                                 *)
AuthRefused(name, key, ip) ==
  /\ name \in DOMAIN tokens_
  /\ \/ TimedOut(name)
     \/ tokens_[name].key # key
     \/ tokens_[name].ip # ip
  /\ tokens_' = Without(name)
  /\ reply_' = "E_FATAL"
  /\ UNCHANGED <<accountVars, lastkey_, grants_, now>>

AuthDone(name, key, ip) ==
  /\ name \in DOMAIN tokens_
  /\ ~TimedOut(name)
  /\ tokens_[name].key = key
  /\ tokens_[name].ip = ip
  /\ tokens_' = Without(name)
  /\ grants_' = grants_ \cup {[name |-> name, ip |-> ip, key |-> key]}
  /\ reply_' = "E_SUCCESS"
  /\ UNCHANGED <<accountVars, lastkey_, now>>

(* cmd_auth, asked by the game server; is_authserver takes any server.     *)
Auth ==
  \E name \in Name, key \in 0 .. MaxKey, ip \in Address :
    \/ AuthNoRecord(name)
    \/ AuthRefused(name, key, ip)
    \/ AuthDone(name, key, ip)

Clock ==
  /\ now < MaxTime
  /\ now' = now + 1
  /\ UNCHANGED <<accountVars, tokenVars, reply_>>

LoginNext == New \/ Login \/ Auth \/ CrashInNew \/ Crash \/ Clock

LoginSpec == LoginInit /\ [][LoginNext]_loginVars

-----------------------------------------------------------------------------
Accounts(users) ==
  /\ DOMAIN users \subseteq Nat \ {0}
  /\ users \in [DOMAIN users -> Secret]

TokensTypeOK ==
  /\ DOMAIN tokens_ \subseteq Name
  /\ tokens_ \in [DOMAIN tokens_ ->
                    [ip : Address, timestamp : 0 .. now, key : 1 .. lastkey_]]

(* The variables have their types; 0 is nobody's serial id. *)
LoginTypeOK ==
  /\ Accounts(guest_data_)
  /\ max_guest_serial_id_ \in Nat
  /\ unused_guest_serial_ids_ \subseteq Nat \ {0}
  /\ userdata.whole \in BOOLEAN /\ Accounts(userdata.users)
  /\ now \in Nat
  /\ lastkey_ \in Nat
  /\ TokensTypeOK
  /\ reply_ \in Result

(* An account that was given to somebody opens with the password it was    *)
(* given with, over restarts, refused requests and reused ids, until a     *)
(* torn file is read: cmd_new never hands out an id that is taken, and     *)
(* saves the account before it replies.                                    *)
CredentialsWork ==
  \A account \in given_ :
    /\ account[1] \in DOMAIN guest_data_
    /\ guest_data_[account[1]] = account[2]

LiveTokens ==
  {[name |-> n, ip |-> tokens_[n].ip, key |-> tokens_[n].key,
    since |-> tokens_[n].timestamp] : n \in DOMAIN tokens_}

LiveKeys == {tokens_[n].key : n \in DOMAIN tokens_}

Promise == INSTANCE TokenOnce
  WITH Person <- Name, Lifetime <- token_timeout_, live <- LiveTokens,
       spent <- (1 .. lastkey_) \ LiveKeys, opened <- grants_, clock <- now

(* The token map implements TokenOnce: the game server is told yes at most *)
(* once for each key, for the name, address and time it was drawn for.     *)
TokensOnce == Promise!Spec

=============================================================================

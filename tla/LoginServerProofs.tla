------------------------- MODULE LoginServerProofs -------------------------
(***************************************************************************)
(* Theorems about LoginServer for every set of names, passwords and        *)
(* addresses and every bound.                                              *)
(***************************************************************************)
EXTENDS LoginServer, TLAPS

(* What keeps a serial id from being given twice: the largest id is at     *)
(* least every account's, and the unused ids the iterator still has ahead  *)
(* are no account's and no larger.                                         *)
Numbered(users, max, unused) ==
  /\ max \in Nat
  /\ DOMAIN users \subseteq 1 .. max
  /\ unused \subseteq (1 .. max) \ DOMAIN users

NumberingOK ==
  Numbered(guest_data_, max_guest_serial_id_, unused_guest_serial_ids_)

(* Between two handlers a file that is whole holds the accounts in memory; *)
(* a torn one has been read as no accounts.                                *)
FileOK ==
  \/ userdata = Whole(guest_data_)
  \/ userdata = Torn

(* Nothing is saved after a torn file was read: no account to lose yet. *)
TornEmpty == userdata = Torn => given_ = {} /\ guest_data_ = NoUsers

AccountsInv ==
  /\ Accounts(guest_data_)
  /\ NumberingOK
  /\ FileOK
  /\ TornEmpty
  /\ CredentialsWork

-----------------------------------------------------------------------------
(* general_unused_guest_serial_ids numbers any accounts that were read. *)
LEMMA RestartNumbered ==
  ASSUME NEW users, Accounts(users), NEW max \in DOMAIN users \cup {0},
         IsLargest(max, users)
  PROVE  Numbered(users, max, Holes(users, max))
<1>1. max \in Nat
  BY DEF Accounts
<1>2. \A id \in DOMAIN users : id \in Nat /\ id >= 1
  BY DEF Accounts
<1>3. DOMAIN users \subseteq 1 .. max
  BY <1>1, <1>2 DEF IsLargest
<1>4. QED
  BY <1>1, <1>3 DEF Numbered, Holes

LEMMA NoAccounts == Accounts(NoUsers)
BY DEF Accounts, NoUsers

LEMMA TornIsNotWhole == \A users : Whole(users) # Torn
BY DEF Whole, Torn

(* get_unused_serial_id returns an id no account has. *)
LEMMA NewIdFree ==
  ASSUME NumberingOK, NEW id \in 1 .. MaxId, NewId(id)
  PROVE  /\ id \notin DOMAIN guest_data_
         /\ id \in 1 .. (max_guest_serial_id_ + 1)
<1>. /\ max_guest_serial_id_ \in Nat
     /\ DOMAIN guest_data_ \subseteq 1 .. max_guest_serial_id_
     /\ unused_guest_serial_ids_ \subseteq
          (1 .. max_guest_serial_id_) \ DOMAIN guest_data_
  BY DEF NumberingOK, Numbered
<1>1. CASE id \in unused_guest_serial_ids_
  BY <1>1
<1>2. CASE id = max_guest_serial_id_ + 1
  BY <1>2
<1>3. QED
  BY <1>1, <1>2 DEF NewId

(* The insert adds one account and leaves the others alone. *)
LEMMA InsertedAccounts ==
  ASSUME Accounts(guest_data_), NumberingOK, NEW id \in 1 .. MaxId, NewId(id),
         NEW secret \in Secret
  PROVE  /\ Accounts(Inserted(id, secret))
         /\ DOMAIN Inserted(id, secret) = DOMAIN guest_data_ \cup {id}
         /\ Inserted(id, secret)[id] = secret
         /\ \A i \in DOMAIN guest_data_ : Inserted(id, secret)[i] = guest_data_[i]
<1>1. id \notin DOMAIN guest_data_
  BY NewIdFree
<1>2. id \in Nat \ {0}
  BY BoundAssumption
<1>3. DOMAIN Inserted(id, secret) = DOMAIN guest_data_ \cup {id}
  BY DEF Inserted
<1>4. \A i \in DOMAIN guest_data_ : Inserted(id, secret)[i] = guest_data_[i]
  BY DEF Inserted
<1>5. Inserted(id, secret)[id] = secret
  BY <1>1 DEF Inserted
<1>6. Inserted(id, secret) \in [DOMAIN guest_data_ \cup {id} -> Secret]
  BY DEF Inserted, Accounts
<1>7. QED
  BY <1>2, <1>3, <1>4, <1>5, <1>6 DEF Accounts

(* cmd_new keeps the numbering: every id it takes is below the new largest. *)
LEMMA NewNumbered ==
  ASSUME Accounts(guest_data_), NumberingOK, NEW id \in 1 .. MaxId, NewId(id),
         NEW secret \in Secret
  PROVE  Numbered(Inserted(id, secret), max_guest_serial_id_ + 1,
                  unused_guest_serial_ids_ \ {id})
<1>1. /\ max_guest_serial_id_ \in Nat
      /\ DOMAIN guest_data_ \subseteq 1 .. max_guest_serial_id_
      /\ unused_guest_serial_ids_ \subseteq
           (1 .. max_guest_serial_id_) \ DOMAIN guest_data_
  BY DEF NumberingOK, Numbered
<1>2. id \in 1 .. (max_guest_serial_id_ + 1)
  BY NewIdFree
<1>3. 1 .. max_guest_serial_id_ \subseteq 1 .. (max_guest_serial_id_ + 1)
  BY <1>1
<1>4. DOMAIN Inserted(id, secret) = DOMAIN guest_data_ \cup {id}
  BY InsertedAccounts
<1>5. QED
  BY <1>1, <1>2, <1>3, <1>4 DEF Numbered

(* What holds of the accounts after a restart from the file f. *)
LEMMA RestartKeeps ==
  ASSUME NEW f, Restart(f), Accounts(f.users),
         f = Whole(f.users) \/ f = Torn,
         f.whole => \A account \in given_ :
                      /\ account[1] \in DOMAIN f.users
                      /\ f.users[account[1]] = account[2]
  PROVE  AccountsInv'
<1>1. PICK max \in DOMAIN f.users \cup {0} :
        /\ IsLargest(max, f.users)
        /\ max_guest_serial_id_' = max
        /\ unused_guest_serial_ids_' = Holes(f.users, max)
  BY DEF Restart
<1>2. Numbered(f.users, max, Holes(f.users, max))
  BY <1>1, RestartNumbered
<1>3. guest_data_' = f.users /\ userdata' = f
  BY DEF Restart
<1>4. NumberingOK'
  BY <1>1, <1>2, <1>3 DEF NumberingOK
<1>5. CASE f = Torn
  <2>1. given_' = {} /\ f.users = NoUsers
    BY <1>5 DEF Restart, Torn
  <2>2. QED
    BY <1>3, <1>4, <1>5, <2>1 DEF AccountsInv, FileOK, TornEmpty, CredentialsWork
<1>6. CASE f = Whole(f.users)
  <2>1. f.whole /\ f # Torn
    BY <1>6 DEF Whole, Torn
  <2>2. given_' = given_
    BY <2>1 DEF Restart
  <2>3. QED
    BY <1>3, <1>4, <1>6, <2>1, <2>2 DEF AccountsInv, FileOK, TornEmpty, CredentialsWork
<1>7. QED
  BY <1>5, <1>6

-----------------------------------------------------------------------------
LEMMA AccountsInit == LoginInit => AccountsInv
<1>1. SUFFICES ASSUME LoginInit
               PROVE  AccountsInv
  OBVIOUS
<1>2. PICK users \in UserFiles :
        /\ userdata = Whole(users)
        /\ guest_data_ = users
        /\ \E max \in DOMAIN users \cup {0} :
             /\ IsLargest(max, users)
             /\ max_guest_serial_id_ = max
             /\ unused_guest_serial_ids_ = Holes(users, max)
        /\ given_ = {<<id, users[id]>> : id \in DOMAIN users}
  BY <1>1 DEF LoginInit
<1>3. Accounts(users)
  BY BoundAssumption DEF UserFiles, Accounts
<1>4. NumberingOK
  BY <1>2, <1>3, RestartNumbered DEF NumberingOK
<1>5. QED
  BY <1>2, <1>3, <1>4, TornIsNotWhole
  DEF AccountsInv, FileOK, TornEmpty, CredentialsWork

(* Saving an account and reading it back loses nobody. *)
LEMMA SavedOpens ==
  ASSUME AccountsInv, NEW id \in 1 .. MaxId, NewId(id), NEW secret \in Secret
  PROVE  \A account \in given_ \cup {<<id, secret>>} :
           /\ account[1] \in DOMAIN Inserted(id, secret)
           /\ Inserted(id, secret)[account[1]] = account[2]
<1>1. /\ DOMAIN Inserted(id, secret) = DOMAIN guest_data_ \cup {id}
      /\ Inserted(id, secret)[id] = secret
      /\ \A i \in DOMAIN guest_data_ : Inserted(id, secret)[i] = guest_data_[i]
  BY InsertedAccounts DEF AccountsInv
<1>2. TAKE account \in given_ \cup {<<id, secret>>}
<1>3. CASE account = <<id, secret>>
  BY <1>1, <1>3
<1>4. CASE account \in given_
  BY <1>1, <1>4 DEF AccountsInv, CredentialsWork
<1>5. QED
  BY <1>2, <1>3, <1>4

LEMMA NewDoneKeeps ==
  ASSUME AccountsInv, NewDone
  PROVE  AccountsInv'
<1>1. PICK id \in 1 .. MaxId, secret \in Secret :
        /\ NewId(id)
        /\ unused_guest_serial_ids_' = unused_guest_serial_ids_ \ {id}
        /\ guest_data_' = Inserted(id, secret)
        /\ userdata' = Saved(id, secret)
        /\ given_' = given_ \cup {<<id, secret>>}
  BY DEF NewDone
<1>2. max_guest_serial_id_' = max_guest_serial_id_ + 1
  BY DEF NewDone
<1>3. Accounts(Inserted(id, secret))
  BY <1>1, InsertedAccounts DEF AccountsInv
<1>4. Numbered(Inserted(id, secret), max_guest_serial_id_ + 1,
               unused_guest_serial_ids_ \ {id})
  BY <1>1, NewNumbered DEF AccountsInv
<1>5. NumberingOK'
  BY <1>1, <1>2, <1>4 DEF NumberingOK
<1>6. FileOK' /\ TornEmpty'
  BY <1>1, TornIsNotWhole DEF FileOK, TornEmpty, Saved
<1>7. CredentialsWork'
  BY <1>1, SavedOpens DEF CredentialsWork
<1>8. QED
  BY <1>1, <1>3, <1>5, <1>6, <1>7 DEF AccountsInv

LEMMA NewFailsKeeps ==
  ASSUME AccountsInv, NewFails
  PROVE  AccountsInv'
<1>1. /\ UNCHANGED <<guest_data_, max_guest_serial_id_, userdata, given_>>
      /\ unused_guest_serial_ids_' \subseteq unused_guest_serial_ids_
  BY DEF NewFails
<1>2. NumberingOK'
  BY <1>1 DEF AccountsInv, NumberingOK, Numbered
<1>3. QED
  BY <1>1, <1>2 DEF AccountsInv, FileOK, TornEmpty, CredentialsWork

LEMMA CrashKeeps ==
  ASSUME AccountsInv, Crash
  PROVE  AccountsInv'
<1>1. Restart(userdata)
  BY DEF Crash
<1>2. CASE userdata = Torn
  BY <1>1, <1>2, NoAccounts, RestartKeeps DEF Torn
<1>3. CASE userdata = Whole(guest_data_)
  <2>1. userdata.users = guest_data_ /\ userdata.whole
    BY <1>3 DEF Whole
  <2>2. QED
    BY <1>1, <1>3, <2>1, RestartKeeps DEF AccountsInv, CredentialsWork
<1>4. QED
  BY <1>2, <1>3 DEF AccountsInv, FileOK

LEMMA CrashInNewKeeps ==
  ASSUME AccountsInv, CrashInNew
  PROVE  AccountsInv'
<1>1. PICK id \in 1 .. MaxId, secret \in Secret :
        /\ NewId(id)
        /\ Restart(Torn) \/ Restart(Saved(id, secret))
  BY DEF CrashInNew
<1>2. CASE Restart(Torn)
  BY <1>2, NoAccounts, RestartKeeps DEF Torn
<1>3. CASE Restart(Saved(id, secret))
  <2>1. Saved(id, secret).users = Inserted(id, secret)
    BY DEF Saved, Whole
  <2>2. Accounts(Inserted(id, secret))
    BY <1>1, InsertedAccounts DEF AccountsInv
  <2>3. \A account \in given_ :
          /\ account[1] \in DOMAIN Inserted(id, secret)
          /\ Inserted(id, secret)[account[1]] = account[2]
    BY <1>1, SavedOpens
  <2>4. Saved(id, secret) = Whole(Inserted(id, secret))
    BY DEF Saved
  <2>5. QED
    BY <1>3, <2>1, <2>2, <2>3, <2>4, RestartKeeps
<1>4. QED
  BY <1>1, <1>2, <1>3

LEMMA AccountsUnchanged ==
  ASSUME AccountsInv, UNCHANGED accountVars
  PROVE  AccountsInv'
BY DEF AccountsInv, accountVars, NumberingOK, FileOK, TornEmpty, CredentialsWork

(* The other handlers leave the accounts alone. *)
LEMMA OthersKeepAccounts ==
  ASSUME Login \/ Auth \/ Clock
  PROVE  UNCHANGED accountVars
BY DEF Login, LoginNoRecord, LoginBadRecord, LoginFails, LoginDone,
       Auth, AuthNoRecord, AuthRefused, AuthDone, Clock

LEMMA AccountsStep ==
  ASSUME AccountsInv, [LoginNext]_loginVars
  PROVE  AccountsInv'
<1>1. CASE NewDone
  BY <1>1, NewDoneKeeps
<1>2. CASE NewFails
  BY <1>2, NewFailsKeeps
<1>3. CASE Login \/ Auth \/ Clock
  BY <1>3, OthersKeepAccounts, AccountsUnchanged
<1>4. CASE CrashInNew
  BY <1>4, CrashInNewKeeps
<1>5. CASE Crash
  BY <1>5, CrashKeeps
<1>6. CASE UNCHANGED loginVars
  BY <1>6, AccountsUnchanged DEF loginVars
<1>7. QED
  BY <1>1, <1>2, <1>3, <1>4, <1>5, <1>6 DEF LoginNext, New

(* The accounts, their numbers and the file stay together. *)
THEOREM AccountsCorrect == LoginSpec => []AccountsInv
BY AccountsInit, AccountsStep, PTL DEF LoginSpec

(* No account that was given to somebody is taken over, changed or lost    *)
(* (cmd_new, general_unused_guest_serial_ids, serialize_guest_data), as    *)
(* long as no torn file is read.                                           *)
THEOREM CredentialsCorrect == LoginSpec => []CredentialsWork
<1>1. AccountsInv => CredentialsWork
  BY DEF AccountsInv
<1>2. QED
  BY <1>1, AccountsCorrect, PTL

-----------------------------------------------------------------------------
(* No key is in two tokens: honouring one leaves no other with its key. *)
KeysDistinct ==
  \A n, m \in DOMAIN tokens_ : tokens_[n].key = tokens_[m].key => n = m

TokensInv ==
  /\ now \in Nat
  /\ lastkey_ \in Nat
  /\ TokensTypeOK
  /\ KeysDistinct

LEMMA TokensInit == LoginInit => TokensInv
BY DEF LoginInit, TokensInv, TokensTypeOK, KeysDistinct

(* Forgetting tokens, a later clock and more keys keep the rest in order. *)
LEMMA FewerTokens ==
  ASSUME TokensInv, now' \in Nat, now' >= now, lastkey_' = lastkey_,
         NEW kept \in SUBSET DOMAIN tokens_,
         tokens_' = [n \in kept |-> tokens_[n]]
  PROVE  TokensInv'
<1>1. \A n \in kept : tokens_'[n] = tokens_[n]
  OBVIOUS
<1>2. DOMAIN tokens_' = kept
  OBVIOUS
<1>3. 0 .. now \subseteq 0 .. now'
  BY DEF TokensInv
<1>4. \A n \in kept : tokens_[n] \in [ip : Address, timestamp : 0 .. now', key : 1 .. lastkey_]
  BY <1>3 DEF TokensInv, TokensTypeOK
<1>5. TokensTypeOK'
  BY <1>2, <1>4 DEF TokensInv, TokensTypeOK
<1>6. KeysDistinct'
  BY <1>1, <1>2 DEF TokensInv, KeysDistinct
<1>7. QED
  BY <1>5, <1>6 DEF TokensInv

LEMMA LoginDoneTokens ==
  ASSUME TokensInv, NEW name \in Name, NEW secret \in Secret, NEW ip \in Address,
         LoginDone(name, secret, ip)
  PROVE  TokensInv'
<1>. DEFINE drawn == [ip |-> ip, timestamp |-> now, key |-> lastkey_ + 1]
<1>1. /\ lastkey_' = lastkey_ + 1
      /\ now' = now
      /\ tokens_' = [n \in DOMAIN tokens_ \cup {name} |->
                       IF n = name THEN drawn ELSE tokens_[n]]
  BY DEF LoginDone
<1>2. drawn \in [ip : Address, timestamp : 0 .. now, key : 1 .. lastkey_']
  BY <1>1 DEF TokensInv
<1>3. 1 .. lastkey_ \subseteq 1 .. lastkey_'
  BY <1>1 DEF TokensInv
<1>4. \A n \in DOMAIN tokens_ :
        tokens_[n] \in [ip : Address, timestamp : 0 .. now, key : 1 .. lastkey_']
  BY <1>3 DEF TokensInv, TokensTypeOK
<1>5. drawn.key = lastkey_ + 1
  OBVIOUS
<1>. HIDE DEF drawn
<1>6. TokensTypeOK'
  BY <1>1, <1>2, <1>4 DEF TokensInv, TokensTypeOK
<1>7. \A n \in DOMAIN tokens_ : tokens_[n].key # drawn.key
  <2>1. \A n \in DOMAIN tokens_ : tokens_[n].key \in 1 .. lastkey_
    BY DEF TokensInv, TokensTypeOK
  <2>2. QED
    BY <1>5, <2>1 DEF TokensInv
<1>8. KeysDistinct'
  BY <1>1, <1>7 DEF TokensInv, KeysDistinct
<1>9. QED
  BY <1>1, <1>6, <1>8 DEF TokensInv

(* A step that is no Login and no Clock draws no key and adds no token. *)
LEMMA RefusedTokens ==
  ASSUME TokensInv, NEW name, tokens_' = Without(name), now' = now, lastkey_' = lastkey_
  PROVE  TokensInv'
<1>1. DOMAIN tokens_ \ {name} \in SUBSET DOMAIN tokens_
  OBVIOUS
<1>2. now' \in Nat /\ now' >= now
  BY DEF TokensInv
<1>3. QED
  BY <1>1, <1>2, FewerTokens DEF Without

LEMMA RestartTokens ==
  ASSUME TokensInv, NEW f, Restart(f)
  PROVE  TokensInv'
BY DEF Restart, TokensInv, TokensTypeOK, KeysDistinct

LEMMA TokensUnchanged ==
  ASSUME TokensInv, UNCHANGED <<tokens_, lastkey_, now>>
  PROVE  TokensInv'
BY DEF TokensInv, TokensTypeOK, KeysDistinct

LEMMA ClockTokens ==
  ASSUME TokensInv, Clock
  PROVE  TokensInv'
<1>1. now' = now + 1 /\ tokens_' = tokens_ /\ lastkey_' = lastkey_
  BY DEF Clock, tokenVars
<1>2. now' \in Nat /\ now' >= now
  BY <1>1 DEF TokensInv
<1>3. tokens_' = [n \in DOMAIN tokens_ |-> tokens_[n]]
  BY <1>1 DEF TokensInv, TokensTypeOK
<1>4. QED
  BY <1>1, <1>2, <1>3, FewerTokens

LEMMA TokensStep ==
  ASSUME TokensInv, [LoginNext]_loginVars
  PROVE  TokensInv'
<1>1. CASE New \/ UNCHANGED loginVars
  <2>1. UNCHANGED <<tokens_, lastkey_, now>>
    BY <1>1 DEF New, NewDone, NewFails, tokenVars, loginVars
  <2>2. QED
    BY <2>1, TokensUnchanged
<1>2. CASE Login
  <2>1. PICK name \in Name, secret \in Secret, ip \in Address :
          \/ LoginDone(name, secret, ip)
          \/ UNCHANGED <<tokens_, lastkey_, now>>
    BY <1>2 DEF Login, LoginNoRecord, LoginBadRecord, LoginFails, tokenVars
  <2>2. QED
    BY <2>1, LoginDoneTokens, TokensUnchanged
<1>3. CASE Auth
  <2>1. PICK name \in Name :
          /\ UNCHANGED <<lastkey_, now>>
          /\ UNCHANGED tokens_ \/ tokens_' = Without(name)
    BY <1>3 DEF Auth, AuthNoRecord, AuthRefused, AuthDone, tokenVars
  <2>2. QED
    BY <2>1, RefusedTokens, TokensUnchanged
<1>4. CASE CrashInNew \/ Crash
  BY <1>4, RestartTokens DEF CrashInNew, Crash
<1>5. CASE Clock
  BY <1>5, ClockTokens
<1>6. QED
  BY <1>1, <1>2, <1>3, <1>4, <1>5 DEF LoginNext

-----------------------------------------------------------------------------
(* The keys of the abstract tokens are the keys in the map. *)
LEMMA KeysMapped ==
  /\ Promise!KeysOf(LiveTokens) = LiveKeys
  /\ Promise!KeysOf(LiveTokens') = LiveKeys'
<1>1. ASSUME NEW t \in LiveTokens
      PROVE  t.key \in LiveKeys
  BY DEF LiveTokens, LiveKeys
<1>2. ASSUME NEW n \in DOMAIN tokens_
      PROVE  \E t \in LiveTokens : t.key = tokens_[n].key
  <2>. DEFINE t == [name |-> n, ip |-> tokens_[n].ip,
                    key |-> tokens_[n].key, since |-> tokens_[n].timestamp]
  <2>1. t \in LiveTokens
    BY DEF LiveTokens
  <2>2. t.key = tokens_[n].key
    OBVIOUS
  <2>. HIDE DEF t
  <2>3. QED
    BY <2>1, <2>2
<1>3. ASSUME NEW t \in LiveTokens'
      PROVE  t.key \in LiveKeys'
  BY DEF LiveTokens, LiveKeys
<1>4. ASSUME NEW n \in DOMAIN tokens_'
      PROVE  \E t \in LiveTokens' : t.key = tokens_'[n].key
  <2>. DEFINE t == [name |-> n, ip |-> tokens_'[n].ip,
                    key |-> tokens_'[n].key, since |-> tokens_'[n].timestamp]
  <2>1. t \in LiveTokens'
    BY DEF LiveTokens
  <2>2. t.key = tokens_'[n].key
    OBVIOUS
  <2>. HIDE DEF t
  <2>3. QED
    BY <2>1, <2>2
<1>5. Promise!KeysOf(LiveTokens) = LiveKeys
  BY <1>1, <1>2 DEF Promise!KeysOf, LiveKeys
<1>6. Promise!KeysOf(LiveTokens') = LiveKeys'
  BY <1>3, <1>4 DEF Promise!KeysOf, LiveKeys
<1>7. QED
  BY <1>5, <1>6

LEMMA LiveKeysDrawn ==
  ASSUME TokensInv
  PROVE  LiveKeys \subseteq 1 .. lastkey_
BY DEF TokensInv, TokensTypeOK, LiveKeys

(* Tokens that leave the map leave their keys among the spent ones. *)
LEMMA FewerSpent ==
  ASSUME TokensInv, lastkey_' = lastkey_, LiveTokens' \subseteq LiveTokens
  PROVE  Promise!SpendDropped
<1>1. LiveKeys' \subseteq LiveKeys
  BY KeysMapped DEF Promise!KeysOf
<1>2. (1 .. lastkey_') \ LiveKeys' =
        ((1 .. lastkey_) \ LiveKeys) \cup (LiveKeys \ LiveKeys')
  BY <1>1, LiveKeysDrawn
<1>3. QED
  BY <1>2, KeysMapped DEF Promise!SpendDropped

LEMMA DropImplemented ==
  ASSUME TokensInv, NEW kept \in SUBSET DOMAIN tokens_,
         tokens_' = [n \in kept |-> tokens_[n]],
         UNCHANGED <<lastkey_, grants_, now>>
  PROVE  Promise!Drop
<1>1. LiveTokens' \subseteq LiveTokens
  BY DEF LiveTokens
<1>2. QED
  BY <1>1, FewerSpent DEF Promise!Drop

LEMMA RestartImplemented ==
  ASSUME TokensInv, NEW f, Restart(f)
  PROVE  Promise!Drop
<1>1. LiveTokens' = {}
  BY DEF Restart, LiveTokens
<1>2. QED
  BY <1>1, FewerSpent DEF Promise!Drop, Restart

LEMMA LoginImplemented ==
  ASSUME TokensInv, NEW name \in Name, NEW secret \in Secret, NEW ip \in Address,
         LoginDone(name, secret, ip)
  PROVE  Promise!Issue
<1>. DEFINE drawn == [ip |-> ip, timestamp |-> now, key |-> lastkey_ + 1]
            token == [name |-> name, ip |-> ip, key |-> lastkey_ + 1, since |-> now]
<1>1. /\ lastkey_' = lastkey_ + 1
      /\ UNCHANGED <<now, grants_>>
      /\ tokens_' = [n \in DOMAIN tokens_ \cup {name} |->
                       IF n = name THEN drawn ELSE tokens_[n]]
  BY DEF LoginDone
<1>2. token \in LiveTokens'
  BY <1>1 DEF LiveTokens
<1>3. LiveTokens' \ {token} \subseteq LiveTokens
  BY <1>1 DEF LiveTokens
<1>4. token \in Promise!Token /\ token.since = now /\ token.key = lastkey_ + 1
  BY DEF Promise!Token, TokensInv
<1>. HIDE DEF drawn, token
<1>5. token.key \notin LiveKeys \cup ((1 .. lastkey_) \ LiveKeys)
  BY <1>4, LiveKeysDrawn DEF TokensInv
<1>6. LiveKeys' \subseteq LiveKeys \cup {lastkey_ + 1}
  BY <1>3, <1>4, KeysMapped DEF Promise!KeysOf
<1>7. lastkey_ + 1 \in LiveKeys'
  BY <1>2, <1>4, KeysMapped DEF Promise!KeysOf
<1>8. (1 .. lastkey_') \ LiveKeys' =
        ((1 .. lastkey_) \ LiveKeys) \cup (LiveKeys \ LiveKeys')
  <2>1. 1 .. lastkey_' = (1 .. lastkey_) \cup {lastkey_ + 1}
    BY <1>1 DEF TokensInv
  <2>2. lastkey_ + 1 \notin 1 .. lastkey_
    BY DEF TokensInv
  <2>3. QED
    BY <1>6, <1>7, <2>1, <2>2, LiveKeysDrawn
<1>9. Promise!SpendDropped
  BY <1>8, KeysMapped DEF Promise!SpendDropped
<1>10. QED
  BY <1>1, <1>2, <1>3, <1>4, <1>5, <1>9, KeysMapped DEF Promise!Issue

LEMMA HonourImplemented ==
  ASSUME TokensInv, NEW name \in Name, NEW key, NEW ip, AuthDone(name, key, ip)
  PROVE  Promise!Honour
<1>. DEFINE token == [name |-> name, ip |-> tokens_[name].ip,
                      key |-> tokens_[name].key, since |-> tokens_[name].timestamp]
<1>1. /\ name \in DOMAIN tokens_
      /\ tokens_[name].key = key /\ tokens_[name].ip = ip
      /\ ~TimedOut(name)
      /\ tokens_' = Without(name)
      /\ grants_' = grants_ \cup {[name |-> name, ip |-> ip, key |-> key]}
      /\ UNCHANGED <<lastkey_, now>>
  BY DEF AuthDone
<1>2. token \in LiveTokens
  BY <1>1 DEF LiveTokens
<1>3. now - token.since <= token_timeout_
  <2>1. tokens_[name].timestamp \in Int /\ now \in Int
    BY <1>1 DEF TokensInv, TokensTypeOK
  <2>2. QED
    BY <1>1, <2>1, TimeoutAssumption DEF TimedOut
<1>4. token.key \notin LiveKeys'
  BY <1>1 DEF TokensInv, KeysDistinct, LiveKeys, Without
<1>5. LiveTokens' \subseteq LiveTokens
  BY <1>1 DEF LiveTokens, Without
<1>6. token.name = name /\ token.ip = ip /\ token.key = key
  BY <1>1
<1>. HIDE DEF token
<1>7. Promise!SpendDropped
  BY <1>1, <1>5, FewerSpent
<1>8. QED
  BY <1>1, <1>2, <1>3, <1>4, <1>5, <1>6, <1>7, KeysMapped DEF Promise!Honour

LEMMA TokensUnchangedImplemented ==
  ASSUME UNCHANGED <<tokens_, lastkey_, grants_, now>>
  PROVE  UNCHANGED Promise!tokenVars
BY DEF Promise!tokenVars, LiveTokens, LiveKeys

LEMMA AuthImplemented ==
  ASSUME TokensInv, Auth
  PROVE  [Promise!Next]_Promise!tokenVars
<1>1. PICK name \in Name, key \in 0 .. MaxKey, ip \in Address :
        \/ AuthNoRecord(name)
        \/ AuthRefused(name, key, ip)
        \/ AuthDone(name, key, ip)
  BY DEF Auth
<1>2. CASE AuthNoRecord(name)
  BY <1>2, TokensUnchangedImplemented DEF AuthNoRecord, tokenVars
<1>3. CASE AuthRefused(name, key, ip)
  <2>1. DOMAIN tokens_ \ {name} \in SUBSET DOMAIN tokens_
    OBVIOUS
  <2>2. tokens_' = [n \in DOMAIN tokens_ \ {name} |-> tokens_[n]]
    BY <1>3 DEF AuthRefused, Without
  <2>3. UNCHANGED <<lastkey_, grants_, now>>
    BY <1>3 DEF AuthRefused
  <2>4. QED
    BY <2>1, <2>2, <2>3, DropImplemented DEF Promise!Next
<1>4. CASE AuthDone(name, key, ip)
  BY <1>4, HonourImplemented DEF Promise!Next
<1>5. QED
  BY <1>1, <1>2, <1>3, <1>4

LEMMA TokenStepImplemented ==
  ASSUME TokensInv, [LoginNext]_loginVars
  PROVE  [Promise!Next]_Promise!tokenVars
<1>1. CASE New \/ UNCHANGED loginVars
  BY <1>1, TokensUnchangedImplemented DEF New, NewDone, NewFails, tokenVars, loginVars
<1>2. CASE Login
  <2>1. PICK name \in Name, secret \in Secret, ip \in Address :
          \/ LoginDone(name, secret, ip)
          \/ UNCHANGED <<tokens_, lastkey_, grants_, now>>
    BY <1>2 DEF Login, LoginNoRecord, LoginBadRecord, LoginFails, tokenVars
  <2>2. QED
    BY <2>1, LoginImplemented, TokensUnchangedImplemented DEF Promise!Next
<1>3. CASE Auth
  BY <1>3, AuthImplemented
<1>4. CASE CrashInNew \/ Crash
  BY <1>4, RestartImplemented DEF CrashInNew, Crash, Promise!Next
<1>5. CASE Clock
  <2>1. /\ now' = now + 1
        /\ UNCHANGED <<tokens_, lastkey_, grants_>>
    BY <1>5 DEF Clock, tokenVars
  <2>2. now' \in Nat /\ now' >= now
    BY <2>1 DEF TokensInv
  <2>3. UNCHANGED <<LiveTokens, LiveKeys>>
    BY <2>1 DEF LiveTokens, LiveKeys
  <2>4. QED
    BY <2>1, <2>2, <2>3 DEF Promise!Next, Promise!Pass
<1>6. QED
  BY <1>1, <1>2, <1>3, <1>4, <1>5 DEF LoginNext

LEMMA TokenInitImplemented == LoginInit => Promise!Init
BY DEF LoginInit, Promise!Init, LiveTokens, LiveKeys

(* The token map implements TokenOnce: cmd_auth says yes at most once for  *)
(* each key cmd_login drew, to the name and address it was drawn for and   *)
(* within token_timeout_.                                                  *)
THEOREM TokensCorrect == LoginSpec => TokensOnce
<1>1. LoginInit => TokensInv
  BY TokensInit
<1>2. TokensInv /\ [LoginNext]_loginVars => TokensInv'
  BY TokensStep
<1>3. TokensInv /\ [LoginNext]_loginVars => [Promise!Next]_Promise!tokenVars
  BY TokenStepImplemented
<1>4. QED
  BY <1>1, <1>2, <1>3, TokenInitImplemented, PTL DEF LoginSpec, TokensOnce, Promise!Spec

-----------------------------------------------------------------------------
(* reply_ is always a result of ocerror. *)
ReplyOK == reply_ \in Result

LEMMA ReplyStep ==
  ASSUME ReplyOK, [LoginNext]_loginVars
  PROVE  ReplyOK'
<1>1. CASE New
  BY <1>1 DEF New, NewFails, NewDone, ReplyOK, Result
<1>2. CASE Login
  BY <1>2 DEF Login, LoginNoRecord, LoginBadRecord, LoginFails, LoginDone, ReplyOK, Result
<1>3. CASE Auth
  BY <1>3 DEF Auth, AuthNoRecord, AuthRefused, AuthDone, ReplyOK, Result
<1>4. CASE CrashInNew \/ Crash
  BY <1>4 DEF CrashInNew, Crash, Restart, ReplyOK, Result
<1>5. CASE Clock \/ UNCHANGED loginVars
  BY <1>5 DEF Clock, loginVars, ReplyOK
<1>6. QED
  BY <1>1, <1>2, <1>3, <1>4, <1>5 DEF LoginNext

LEMMA TypeFollows ==
  ASSUME AccountsInv, TokensInv, ReplyOK
  PROVE  LoginTypeOK
<1>1. /\ max_guest_serial_id_ \in Nat
      /\ unused_guest_serial_ids_ \subseteq Nat \ {0}
  BY DEF AccountsInv, NumberingOK, Numbered
<1>2. userdata.whole \in BOOLEAN /\ Accounts(userdata.users)
  <2>1. CASE userdata = Whole(guest_data_)
    <3>1. userdata.users = guest_data_ /\ userdata.whole = TRUE
      BY <2>1 DEF Whole
    <3>2. QED
      BY <3>1 DEF AccountsInv
  <2>2. CASE userdata = Torn
    <3>1. userdata.users = NoUsers /\ userdata.whole = FALSE
      BY <2>2 DEF Torn
    <3>2. QED
      BY <3>1, NoAccounts
  <2>3. QED
    BY <2>1, <2>2 DEF AccountsInv, FileOK
<1>3. QED
  BY <1>1, <1>2 DEF AccountsInv, TokensInv, ReplyOK, LoginTypeOK

(* Every variable of the login server keeps its type, and the reserved id  *)
(* 0 is never an account's nor next in line.                               *)
THEOREM LoginTypeCorrect == LoginSpec => []LoginTypeOK
<1>1. LoginInit => ReplyOK
  BY DEF LoginInit, ReplyOK, Result
<1>2. LoginInit => TokensInv
  BY TokensInit
<1>3. TokensInv /\ [LoginNext]_loginVars => TokensInv'
  BY TokensStep
<1>4. ReplyOK /\ [LoginNext]_loginVars => ReplyOK'
  BY ReplyStep
<1>5. AccountsInv /\ TokensInv /\ ReplyOK => LoginTypeOK
  BY TypeFollows
<1>6. QED
  BY <1>1, <1>2, <1>3, <1>4, <1>5, AccountsCorrect, PTL DEF LoginSpec

=============================================================================

--------------------------- MODULE Sessions_proofs ---------------------------
(***************************************************************************)
(* For any names, passwords and requests in flight, and any number of      *)
(* accounts: the types, and the four invariants of Sessions. For any keys, *)
(* budget, window, wait for the lock and size of the table: the types of   *)
(* Throttle, its budget and the order in which it forgets.                 *)
(***************************************************************************)
EXTENDS Sessions, Throttle, TLAPS, FiniteSetTheorems, SequenceTheorems, WellFoundedInduction

\* An account has an id of its own, never used again, and both copies of its
\* password were set by someone entitled to.
RowInv ==
    \A i \in DOMAIN users :
        /\ i <= created /\ users[i].hash \in users[i].past
        /\ users[i].hash \in ever[users[i].name]
        /\ users[i].enc \in ever[users[i].name] \cup {None, Lost}

CacheInv == \A n \in Names : cache[n] \in ever[n] \cup {None}

\* The account of that id had the name n, and has it still if it is there.
Named(i, n) == i <= created /\ (i \in DOMAIN users => users[i].name = n)

JwtOK(j) == Named(j.id, j.name)
JwtInv == \A j \in jwts : JwtOK(j)

\* The password a log-in is about to store is that of the row, unless a change
\* has overtaken it.
SeedOK(q) ==
    q.op = "login" /\ q.step = "seed" /\ q.row \in DOMAIN users =>
        users[q.row].overtaken \/ users[q.row].hash = q.pass

\* What a request knows at each of its steps, of rows that others may have
\* changed since it read them.
RequestOK(q) ==
    /\ \A j \in q.jwt : JwtOK(j)
    /\ \A i \in q.off : i <= created /\ (i \in DOMAIN users => users[i].disabled)
    /\ q.op \in {"login", "change"} => q.pass \in Passwords
    /\ q.op = "token" /\ q.step \in {"warm", "compare", "fetch"} => q.plain \in ever[q.name]
    /\ q.op = "token" /\ q.step = "fetch" => q.pass = q.plain
    /\ q.op = "login" /\ q.step \in {"seed", "warm"} =>
          Named(q.row, q.name) /\ q.pass \in ever[q.name] /\ q.row \notin q.off
    /\ SeedOK(q)
    /\ q.op = "change" => Named(q.row, q.name)
    /\ q.op = "change" /\ q.step = "write" /\ q.row \in DOMAIN users =>
          q.plain \in users[q.row].past
    /\ q.op = "change" /\ q.step = "cache" => q.pass \in ever[q.name]
    /\ q.op = "admitted" => q.pass \in ever[q.name] \cup {None} /\ q.row \notin q.off

RequestInv == \A r \in Callers : RequestOK(req[r])

IInv == TypeOK /\ RowInv /\ EncFollowsHash /\ CacheInv /\ JwtInv /\ RequestInv

\* How the rows may change under a request: accounts come with new ids, keep
\* their name and their past, and a new password overtakes who was seeding.
Evolves ==
    /\ created' \in created..MaxAccounts
    /\ \A i \in DOMAIN users' :
          \/ i > created
          \/ /\ i \in DOMAIN users /\ users'[i].name = users[i].name
             /\ users[i].past \subseteq users'[i].past
             /\ \/ users'[i].hash = users[i].hash /\ users'[i].overtaken = users[i].overtaken
                \/ Seeding(i) => users'[i].overtaken
    /\ \A n \in Names : ever[n] \subseteq ever'[n]

\* No account of those noted as disabled or deleted has been enabled.
StillOff(q) ==
    \A i \in q.off : i \in DOMAIN users' =>
        i \in DOMAIN users /\ users'[i].disabled = users[i].disabled

\* Who is about to store a copy is one of the requests.
Counted(q) == q.op = "login" /\ q.step = "seed" => Seeding(q.row)

-----------------------------------------------------------------------------
(* Requests while rows change *)

\* What a JWT says stays true of accounts that evolve.
LEMMA JwtStable ==
  ASSUME TypeOK, Evolves, NEW j \in Tokens, JwtOK(j)
  PROVE  JwtOK(j)'
  BY DEF TypeOK, Evolves, JwtOK, Named, Ids, Tokens

\* So does what a request knows, but for those enabled again.
LEMMA RequestStable ==
  ASSUME TypeOK, Evolves, NEW q \in Requests \cup {Idle}, RequestOK(q), StillOff(q),
         Counted(q)
  PROVE  RequestOK(q)'
<1>1. ASSUME NEW j \in q.jwt PROVE JwtOK(j)'
  BY JwtStable DEF RequestOK, Requests, Idle
<1>2. ASSUME NEW i \in q.off
      PROVE  i <= created' /\ (i \in DOMAIN users' => users'[i].disabled)
  BY DEF RequestOK, StillOff, Requests, Idle, TypeOK, Evolves, Ids
<1>3. q.op \in {"login", "change"} => q.name \in Names /\ q.row \in Nat
  BY SessionsAssumption DEF Requests, Idle
<1>4. ASSUME Named(q.row, q.name), q.name \in Names, q.row \in Nat
      PROVE  Named(q.row, q.name)'
  BY <1>4 DEF Named, TypeOK, Evolves
<1>5. q.op # "idle" => q.name \in Names
  BY DEF Requests, Idle
<1>6. \A n \in Names : ever[n] \subseteq ever'[n]
  BY DEF Evolves
<1>7. q.row \in DOMAIN users' /\ q.row <= created /\ q.row \in Nat =>
          /\ q.row \in DOMAIN users
          /\ users[q.row].past \subseteq users'[q.row].past
          /\ \/ users'[q.row].hash = users[q.row].hash
                /\ users'[q.row].overtaken = users[q.row].overtaken
             \/ Seeding(q.row) => users'[q.row].overtaken
  BY DEF Evolves, TypeOK
<1>8. SeedOK(q)'
  <2> SUFFICES ASSUME q.op = "login", q.step = "seed", q.row \in DOMAIN users'
               PROVE  users'[q.row].overtaken \/ users'[q.row].hash = q.pass
    BY DEF SeedOK
  <2>1. q.row <= created /\ q.row \in Nat /\ Seeding(q.row)
    BY <1>3 DEF RequestOK, Named, Counted
  <2> QED
    BY <1>7, <2>1 DEF RequestOK, SeedOK
<1>9. q.op = "change" /\ q.step = "write" /\ q.row \in DOMAIN users' =>
          q.plain \in users'[q.row].past
  BY <1>3, <1>7 DEF RequestOK, Named
<1> QED
  BY <1>1, <1>2, <1>3, <1>4, <1>5, <1>6, <1>8, <1>9 DEF RequestOK

\* Every request that is under way counts.
LEMMA AllCounted == \A r \in Callers : Counted(req[r])
  BY DEF Counted, Seeding

-----------------------------------------------------------------------------
(* Accounts *)

\* A step that changes nothing but rows keeps the invariant if the rows
\* evolve, agree with their history, and nobody is enabled.
LEMMA AccountStep ==
  ASSUME IInv, Evolves, TypeOK', RowInv', EncFollowsHash',
         \A r \in Callers : StillOff(req[r]),
         UNCHANGED <<cache, jwts, req>>
  PROVE  IInv'
<1>1. CacheInv'
  BY DEF IInv, CacheInv, Evolves
<1>2. JwtInv'
  BY JwtStable DEF IInv, JwtInv, TypeOK
<1>3. RequestInv'
  BY RequestStable, AllCounted DEF IInv, RequestInv, TypeOK
<1> QED
  BY <1>1, <1>2, <1>3 DEF IInv

\* A new account, from an endpoint or, without a copy to decrypt, from the
\* command line.
LEMMA CreateStep ==
  ASSUME IInv, NEW n \in Names, NEW p \in Passwords, NEW enc \in {p, None},
         create_user(n, p, enc), UNCHANGED <<cache, jwts, req>>
  PROVE  IInv'
<1> DEFINE i == created + 1
<1>1. /\ created < MaxAccounts /\ created' = i /\ i \in Ids /\ i \notin DOMAIN users
      /\ users' = [x \in DOMAIN users \cup {i} |-> IF x = i THEN Row(n, p, enc) ELSE users[x]]
      /\ ever' = [ever EXCEPT ![n] = @ \cup {p}]
  BY SessionsAssumption DEF create_user, NewId, IInv, TypeOK, RowInv, Ids
<1>2. Row(n, p, enc) \in Rows
  BY <1>1 DEF Rows, Row
<1>3. TypeOK'
  BY <1>1, <1>2, SessionsAssumption DEF IInv, TypeOK, Ids
<1>4. Evolves
  BY <1>1, SessionsAssumption DEF Evolves, IInv, TypeOK, Ids
<1>5. RowInv' /\ EncFollowsHash'
  BY <1>1 DEF IInv, RowInv, EncFollowsHash, TypeOK, Ids, Rows, Row
<1>6. ASSUME NEW r \in Callers PROVE StillOff(req[r])
  <2>1. \A x \in req[r].off : x <= created
    BY DEF IInv, RequestInv, RequestOK
  <2>2. i \notin req[r].off
    BY <2>1, SessionsAssumption DEF IInv, TypeOK
  <2>3. \A x \in DOMAIN users' : x = i \/ (x \in DOMAIN users /\ users'[x] = users[x])
    BY <1>1
  <2> QED
    BY <2>2, <2>3 DEF StillOff
<1> QED
  BY <1>3, <1>4, <1>5, <1>6, AccountStep

\* An account is deleted.
LEMMA DeleteStep ==
  ASSUME IInv, NEW i \in DOMAIN users, users' = delete_user(i),
         UNCHANGED <<created, cache, jwts, req, ever>>
  PROVE  IInv'
<1>1. /\ DOMAIN users' = DOMAIN users \ {i}
      /\ users' = [x \in DOMAIN users \ {i} |-> users[x]]
  BY DEF delete_user, Restrict
<1>2. TypeOK' /\ Evolves
  BY <1>1 DEF Evolves, IInv, TypeOK
<1>3. RowInv' /\ EncFollowsHash'
  BY <1>1 DEF IInv, RowInv, EncFollowsHash
<1>4. ASSUME NEW r \in Callers PROVE StillOff(req[r])
  BY <1>1 DEF StillOff
<1> QED
  BY <1>2, <1>3, <1>4, AccountStep

\* Rows in which a password was set, with its copy or by the command line.
PasswordSet(i, p) ==
    /\ users' \in [DOMAIN users -> Rows]
    /\ \A x \in DOMAIN users :
          /\ x # i => users'[x] = users[x]
          /\ x = i =>
                /\ users'[x].hash = p /\ users'[x].past = users[x].past \cup {p}
                /\ users'[x].overtaken = Seeding(x)
                /\ \/ users'[x].enc = p
                   \/ users'[x].cli /\ users'[x].enc = users[x].enc
                /\ users'[x].name = users[x].name
                /\ users'[x].disabled = users[x].disabled

\* Both ways of changing a password set it so.
LEMMA PasswordIsSet ==
  ASSUME TypeOK, NEW i \in 0..MaxAccounts, NEW p \in Passwords,
         \/ users' = WithPassword(i, p)
         \/ users' = Update(i, update_user_password(users[i], i, p, TRUE))
  PROVE  PasswordSet(i, p)
<1>1. CASE i \notin DOMAIN users
  BY <1>1 DEF PasswordSet, WithPassword, Update, TypeOK
<1>2. CASE i \in DOMAIN users
  <2>1. users[i] \in Rows /\ Seeding(i) \in BOOLEAN
    BY <1>2 DEF TypeOK, Seeding
  <2> DEFINE both == update_encrypted_password(update_user_password(users[i], i, p, FALSE), p)
             one == update_user_password(users[i], i, p, TRUE)
  <2>2. /\ both \in Rows /\ both.hash = p /\ both.past = users[i].past \cup {p}
        /\ both.overtaken = Seeding(i) /\ both.enc = p
        /\ both.name = users[i].name /\ both.disabled = users[i].disabled
    BY <2>1 DEF update_encrypted_password, update_user_password, Rows
  <2>3. /\ one \in Rows /\ one.hash = p /\ one.past = users[i].past \cup {p}
        /\ one.overtaken = Seeding(i) /\ one.enc = users[i].enc /\ one.cli
        /\ one.name = users[i].name /\ one.disabled = users[i].disabled
    BY <2>1 DEF update_user_password, Rows
  <2>4. users' = [users EXCEPT ![i] = both] \/ users' = [users EXCEPT ![i] = one]
    BY <1>2 DEF WithPassword, Update
  <2> HIDE DEF both, one
  <2> QED
    BY <1>2, <2>2, <2>3, <2>4 DEF PasswordSet, TypeOK
<1> QED
  BY <1>1, <1>2

\* The account, if it is still there, bears the name the password is set for:
\* then the rows evolve and agree with their history.
LEMMA PasswordSetStep ==
  ASSUME IInv, NEW i \in 0..MaxAccounts, NEW p \in Passwords, NEW n \in Names,
         i \in DOMAIN users => users[i].name = n, PasswordSet(i, p),
         ever' = [ever EXCEPT ![n] = @ \cup {p}], UNCHANGED created
  PROVE  /\ users' \in [DOMAIN users' -> Rows] /\ DOMAIN users' \subseteq Ids
         /\ ever' \in [Names -> SUBSET Passwords]
         /\ Evolves /\ RowInv' /\ EncFollowsHash'
         /\ \A q \in Requests \cup {Idle} : StillOff(q)
<1>1. /\ users' \in [DOMAIN users' -> Rows] /\ DOMAIN users' \subseteq Ids
      /\ DOMAIN users' = DOMAIN users
      /\ ever' \in [Names -> SUBSET Passwords]
      /\ p \in ever'[n] /\ \A m \in Names : ever[m] \subseteq ever'[m]
  BY DEF PasswordSet, IInv, TypeOK
<1>2. ASSUME NEW x \in DOMAIN users
      PROVE  /\ users'[x].name = users[x].name /\ users[x].name \in Names
             /\ users'[x].disabled = users[x].disabled
             /\ users[x].past \subseteq users'[x].past
             /\ \/ users'[x].hash = users[x].hash /\ users'[x].overtaken = users[x].overtaken
                \/ Seeding(x) => users'[x].overtaken
             /\ users'[x].hash \in users'[x].past
             /\ users'[x].hash \in ever'[users'[x].name]
             /\ users'[x].enc \in ever'[users'[x].name] \cup {None, Lost}
             /\ ~users'[x].cli /\ ~users'[x].overtaken =>
                   \/ users'[x].enc \in {users'[x].hash, Lost}
                   \/ users'[x].enc = None /\ users'[x].past = {users'[x].hash}
  <2>1. /\ users[x].name \in Names /\ users[x].hash \in ever[users[x].name]
        /\ users[x].hash \in users[x].past
        /\ users[x].enc \in ever[users[x].name] \cup {None, Lost}
        /\ ~users[x].cli /\ ~users[x].overtaken =>
              \/ users[x].enc \in {users[x].hash, Lost}
              \/ users[x].enc = None /\ users[x].past = {users[x].hash}
    BY DEF IInv, RowInv, EncFollowsHash, TypeOK, Rows
  <2>2. CASE x # i
    BY <1>1, <2>1, <2>2 DEF PasswordSet
  <2>3. CASE x = i
    BY <1>1, <2>1, <2>3 DEF PasswordSet
  <2> QED
    BY <2>2, <2>3
<1>3. Evolves
  BY <1>1, <1>2, SessionsAssumption DEF Evolves, IInv, TypeOK
<1>4. RowInv' /\ EncFollowsHash'
  BY <1>1, <1>2 DEF IInv, RowInv, EncFollowsHash
<1>5. ASSUME NEW q \in Requests \cup {Idle} PROVE StillOff(q)
  BY <1>1, <1>2 DEF StillOff
<1> QED
  BY <1>1, <1>3, <1>4, <1>5

\* A password changes in one step.
LEMMA PasswordStep ==
  ASSUME IInv, NEW i \in DOMAIN users, NEW p \in Passwords,
         \/ users' = WithPassword(i, p)
         \/ users' = Update(i, update_user_password(users[i], i, p, TRUE)),
         ever' = [ever EXCEPT ![users[i].name] = @ \cup {p}],
         UNCHANGED <<created, cache, jwts, req>>
  PROVE  IInv'
<1>1. i \in 0..MaxAccounts /\ users[i].name \in Names
  BY SessionsAssumption DEF IInv, TypeOK, Rows, Ids
<1>2. PasswordSet(i, p)
  BY <1>1, PasswordIsSet DEF IInv
<1>3. /\ users' \in [DOMAIN users' -> Rows] /\ DOMAIN users' \subseteq Ids
      /\ ever' \in [Names -> SUBSET Passwords]
      /\ Evolves /\ RowInv' /\ EncFollowsHash'
      /\ \A q \in Requests \cup {Idle} : StillOff(q)
  BY <1>1, <1>2, PasswordSetStep
<1>4. TypeOK'
  BY <1>3 DEF IInv, TypeOK
<1> QED
  BY <1>3, <1>4, AccountStep DEF IInv, TypeOK

\* An account is disabled or enabled, and the history with it.
LEMMA DisabledStep ==
  ASSUME IInv, NEW i \in DOMAIN users, NEW off \in BOOLEAN, set_user_disabled(i, off),
         UNCHANGED <<created, cache, jwts, ever>>
  PROVE  IInv'
<1> DEFINE Q(r) == IF off THEN req[r] ELSE [req[r] EXCEPT !.off = @ \ {i}]
<1>1. /\ users' = [users EXCEPT ![i].disabled = off]
      /\ \A r \in Callers : req'[r] = Q(r)
  BY DEF set_user_disabled, IInv, TypeOK
<1>2. ASSUME NEW r \in Callers
      PROVE  /\ Q(r) \in Requests \cup {Idle} /\ RequestOK(Q(r)) /\ StillOff(Q(r))
             /\ Counted(Q(r))
  <2>1. RequestOK(req[r]) /\ req[r] \in Requests \cup {Idle}
    BY DEF IInv, TypeOK, RequestInv
  <2>2. Q(r) \in Requests \cup {Idle}
    BY <2>1 DEF Requests, Idle
  <2>3. RequestOK(Q(r))
    BY <2>1 DEF RequestOK, SeedOK, Requests, Idle
  <2>5. Counted(Q(r))
    BY <2>1, AllCounted DEF Counted, Requests, Idle
  <2>4. StillOff(Q(r))
    BY <1>1, <2>1 DEF StillOff, RequestOK, Requests, Idle, IInv, TypeOK, Rows
  <2> QED
    BY <2>2, <2>3, <2>4, <2>5
<1>3. Evolves /\ users' \in [DOMAIN users' -> Rows] /\ DOMAIN users' \subseteq Ids
  BY <1>1, SessionsAssumption DEF Evolves, IInv, TypeOK, Rows
<1>4. RowInv' /\ EncFollowsHash'
  BY <1>1 DEF IInv, RowInv, EncFollowsHash, TypeOK, Rows
<1>5. req' \in [Callers -> Requests \cup {Idle}]
  BY <1>2, <1>1 DEF set_user_disabled, IInv, TypeOK
<1>6. TypeOK'
  BY <1>3, <1>5 DEF IInv, TypeOK
<1>7. RequestInv'
  BY <1>1, <1>2, <1>3, RequestStable DEF RequestInv, IInv
<1>8. CacheInv' /\ JwtInv'
  BY <1>3, JwtStable DEF IInv, CacheInv, JwtInv, TypeOK
<1> QED
  BY <1>4, <1>6, <1>7, <1>8 DEF IInv

\* Whatever the account endpoints and the command line do keeps the invariant.
LEMMA AccountsStep == IInv /\ AccountsNext => IInv'
<1> SUFFICES ASSUME IInv, AccountsNext PROVE IInv'
  OBVIOUS
<1>1. ASSUME NEW n \in Names, NEW p \in Passwords,
             CreateUser(n, p) \/ UsersCreate(n, p) \/ cmd_useradd(n, p)
      PROVE  IInv'
  <2>1. CASE create_user(n, p, p) /\ UNCHANGED <<cache, jwts, req>>
    BY <2>1, CreateStep, SessionsAssumption DEF None
  <2>2. CASE create_user(n, p, None) /\ UNCHANGED <<cache, jwts, req>>
    BY <2>2, CreateStep
  <2> QED
    BY <1>1, <2>1, <2>2 DEF CreateUser, UsersCreate, cmd_useradd
<1>2. ASSUME NEW n \in Names, NEW p \in Passwords, UpdateUser(n, p) PROVE IInv'
  <2>1. PICK i \in DOMAIN users : users[i].name = n /\ users' = WithPassword(i, p)
    BY <1>2 DEF UpdateUser, IdsOf
  <2>2. /\ ever' = [ever EXCEPT ![users[i].name] = @ \cup {p}]
        /\ UNCHANGED <<created, cache, jwts, req>>
    BY <1>2, <2>1 DEF UpdateUser
  <2> QED
    BY <2>1, <2>2, PasswordStep
<1>3. ASSUME NEW n \in Names, cmd_userdel(n) PROVE IInv'
  BY <1>3, DeleteStep DEF cmd_userdel, IdsOf
<1>4. ASSUME NEW i \in DOMAIN users, DeleteUser(i) \/ UsersDelete(i) PROVE IInv'
  BY <1>4, DeleteStep DEF DeleteUser, UsersDelete
<1>5. ASSUME NEW i \in DOMAIN users, UsersPatch(i) PROVE IInv'
  <2>1. ASSUME NEW p \in Passwords, users' = WithPassword(i, p),
               ever' = [ever EXCEPT ![users[i].name] = @ \cup {p}],
               UNCHANGED <<created, cache, jwts, req>>
        PROVE  IInv'
    BY <2>1, PasswordStep
  <2>2. ASSUME NEW off \in BOOLEAN, set_user_disabled(i, off),
               UNCHANGED <<created, cache, jwts, ever>>
        PROVE  IInv'
    BY <2>2, DisabledStep
  <2> QED
    BY <1>5, <2>1, <2>2 DEF UsersPatch
<1>6. ASSUME NEW i \in DOMAIN users, NEW p \in Passwords, ChangePassword(i, p) \/ cmd_passwd(i, p)
      PROVE  IInv'
  BY <1>6, PasswordStep DEF ChangePassword, cmd_passwd
<1>7. ASSUME NEW i \in DOMAIN users, NEW off \in BOOLEAN, _set_disabled(i, off) PROVE IInv'
  BY <1>7, DisabledStep DEF _set_disabled
<1> QED
  BY <1>1, <1>2, <1>3, <1>4, <1>5, <1>6, <1>7 DEF AccountsNext

-----------------------------------------------------------------------------
(* Requests *)

\* A step of one request that leaves the accounts alone keeps the invariant if
\* what the request knows then, what it caches and the JWT it gives are right.
LEMMA RequestStep ==
  ASSUME IInv, NEW r \in Callers, NEW q \in Requests \cup {Idle}, RequestOK(q),
         req' = [req EXCEPT ![r] = q],
         UNCHANGED <<users, created, ever>>,
         cache' \in [Names -> Passwords \cup {None}], CacheInv',
         jwts' \subseteq Tokens, \A j \in jwts' : JwtOK(j)
  PROVE  IInv'
<1>1. TypeOK'
  BY DEF IInv, TypeOK
<1>2. \A s \in Callers : RequestOK(req'[s])
  BY DEF IInv, RequestInv, TypeOK
<1>3. RequestInv' /\ JwtInv'
  BY <1>2 DEF RequestInv, RequestOK, SeedOK, JwtInv, JwtOK, Named
<1>4. RowInv' /\ EncFollowsHash'
  BY DEF IInv, RowInv, EncFollowsHash
<1> QED
  BY <1>1, <1>3, <1>4 DEF IInv

\* The accounts noted when a request begins are disabled or deleted.
LEMMA OffNowIsOff ==
  ASSUME IInv
  PROVE  /\ OffNow \subseteq Ids
         /\ \A i \in OffNow : i <= created /\ (i \in DOMAIN users => users[i].disabled)
  BY SessionsAssumption DEF IInv, TypeOK, RowInv, OffNow, Off, Ids

\* What a request is while idle, or once admitted to an account, is right.
LEMMA IdleOK == Idle \in Requests \cup {Idle} /\ RequestOK(Idle)
  BY DEF Idle, RequestOK, SeedOK

\* A request that is under way has all its fields.
LEMMA UnderWay ==
  ASSUME NEW q \in Requests \cup {Idle}, q.op # "idle"
  PROVE  q \in Requests
  BY DEF Idle

\* The steps of a request with a token: the password it is compared with was
\* once set for the name, and the account is one that may enter.
LEMMA TokenStep ==
  ASSUME IInv, NEW r \in Callers,
         \/ \E n \in Names, p \in Passwords : TokenBegin(r, n, p)
         \/ TokenRead(r) \/ TokenWarm(r) \/ TokenCompare(r) \/ TokenFetch(r)
  PROVE  IInv'
<1> DEFINE q0 == req[r]
<1>1. /\ q0 \in Requests \cup {Idle} /\ RequestOK(q0)
      /\ req \in [Callers -> Requests \cup {Idle}]
      /\ cache \in [Names -> Passwords \cup {None}] /\ CacheInv
      /\ jwts \subseteq Tokens /\ \A j \in jwts : JwtOK(j)
      /\ ever \in [Names -> SUBSET Passwords] /\ users \in [DOMAIN users -> Rows]
      /\ \A i \in DOMAIN users : users[i].enc \in ever[users[i].name] \cup {None, Lost}
  BY DEF IInv, TypeOK, RequestInv, JwtInv, RowInv
<1>2. ASSUME NEW q \in Requests \cup {Idle}, RequestOK(q), req' = [req EXCEPT ![r] = q],
             UNCHANGED <<users, created, cache, jwts, ever>>
      PROVE  IInv'
  BY <1>1, <1>2, RequestStep DEF CacheInv
<1>3. ASSUME NEW n \in Names, NEW p \in Passwords, TokenBegin(r, n, p) PROVE IInv'
  <2> DEFINE q == [op |-> "token", step |-> IF cache[n] = None THEN "read" ELSE "compare",
                   name |-> n, pass |-> p, plain |-> cache[n], row |-> 0,
                   jwt |-> {}, off |-> OffNow]
  <2>1. q \in Requests
    BY <1>1, OffNowIsOff, SessionsAssumption DEF Requests
  <2>2. cache[n] = None \/ cache[n] \in ever[n]
    BY <1>1 DEF CacheInv
  <2>3. RequestOK(q)
    BY <2>2, OffNowIsOff DEF RequestOK, SeedOK
  <2> HIDE DEF q
  <2> QED
    BY <1>2, <1>3, <2>1, <2>3 DEF TokenBegin, Begin, q
<1>4. CASE TokenRead(r)
  <2>1. ASSUME NEW i \in Usable(q0.name), q0.op = "token",
               req' = [req EXCEPT ![r] = [@ EXCEPT !.step = "warm", !.plain = users[i].enc]],
               UNCHANGED <<users, created, cache, jwts, ever>>
        PROVE  IInv'
    <3> DEFINE q == [q0 EXCEPT !.step = "warm", !.plain = users[i].enc]
    <3>1. /\ i \in DOMAIN users /\ users[i].name = q0.name /\ users[i].enc \in Passwords
          /\ users[i].enc \in ever[q0.name]
      BY <1>1, SessionsAssumption DEF Usable, IdsOf, None, Lost
    <3>2. q0 \in Requests /\ q \in Requests
      <4>1. q0 \in Requests
        BY <1>1, <2>1, UnderWay
      <4> QED
        BY <3>1, <4>1 DEF Requests
    <3>3. RequestOK(q)
      BY <1>1, <2>1, <3>1, <3>2 DEF Requests, Idle, RequestOK, SeedOK
    <3>4. req' = [req EXCEPT ![r] = q]
      BY <1>1, <2>1
    <3> HIDE DEF q
    <3> QED
      BY <1>2, <2>1, <3>2, <3>3, <3>4
  <2>2. Refuse(r) /\ UNCHANGED <<users, created, cache, jwts, ever>> => IInv'
    BY <1>2, IdleOK DEF Refuse
  <2> QED
    BY <1>4, <2>1, <2>2 DEF TokenRead, At
<1>5. CASE TokenWarm(r)
  <2> DEFINE q == [q0 EXCEPT !.step = "compare"]
  <2>1. q0.op = "token" /\ q0.step = "warm" /\ q0 \in Requests
    BY <1>1, <1>5 DEF TokenWarm, At, Idle
  <2>2. q0.name \in Names /\ q0.plain \in ever[q0.name]
    BY <1>1, <2>1 DEF RequestOK, Requests
  <2>3. q \in Requests /\ RequestOK(q)
    BY <1>1, <2>1 DEF Requests, RequestOK, SeedOK
  <2>4. req' = [req EXCEPT ![r] = q]
    BY <1>5 DEF TokenWarm, Goto
  <2>5. cache' \in [Names -> Passwords \cup {None}] /\ CacheInv'
    BY <1>1, <1>5, <2>2 DEF TokenWarm, CacheInv
  <2> HIDE DEF q
  <2> QED
    BY <1>1, <1>5, <2>3, <2>4, <2>5, RequestStep DEF TokenWarm
<1>6. CASE TokenCompare(r)
  <2> DEFINE q == [q0 EXCEPT !.step = "fetch"]
  <2>1. q0.op = "token" /\ q0.step = "compare" /\ q0 \in Requests
    BY <1>1, <1>6 DEF TokenCompare, At, Idle
  <2>2. q0.plain = q0.pass => q \in Requests /\ RequestOK(q)
    BY <1>1, <2>1 DEF Requests, RequestOK, SeedOK
  <2>3. (req' = [req EXCEPT ![r] = q] /\ q0.plain = q0.pass) \/ Refuse(r)
    BY <1>6 DEF TokenCompare, Goto
  <2> HIDE DEF q
  <2> QED
    BY <1>2, <1>6, <2>2, <2>3, IdleOK DEF TokenCompare, Refuse
<1>7. CASE TokenFetch(r)
  <2>1. q0.op = "token" /\ q0.step = "fetch" /\ q0 \in Requests
    BY <1>1, <1>7 DEF TokenFetch, At, Idle
  <2>2. ASSUME NEW i \in IdsOf(q0.name), MayEnter(i), Admit(r, i) PROVE IInv'
    <3>1. i \in DOMAIN users /\ ~users[i].disabled /\ i \in 0..MaxAccounts
      BY <2>2, SessionsAssumption DEF IdsOf, MayEnter, IInv, TypeOK, Ids
    <3>2. Admitted(q0, i) \in Requests /\ RequestOK(Admitted(q0, i))
      BY <1>1, <2>1, <3>1 DEF Admitted, Requests, RequestOK, SeedOK
    <3> QED
      BY <1>2, <1>7, <2>2, <3>2 DEF TokenFetch, Admit
  <2>3. Refuse(r) => IInv'
    BY <1>2, <1>7, IdleOK DEF TokenFetch, Refuse
  <2> QED
    BY <1>7, <2>2, <2>3 DEF TokenFetch
<1> QED
  BY <1>3, <1>4, <1>5, <1>6, <1>7

\* The steps of a log-in, by password or through the web: what it stores and
\* caches is the password that was verified, and unless it was overtaken it
\* stores the copy of the password of the row.
LEMMA LoginStep ==
  ASSUME IInv, NEW r \in Callers,
         \/ \E n \in Names, p \in Passwords : PasswordBegin(r, n, p) \/ Login(r, n, p)
         \/ VerifyRead(r) \/ VerifySeed(r) \/ VerifyWarm(r)
  PROVE  IInv'
<1> DEFINE q0 == req[r]
<1>1. /\ q0 \in Requests \cup {Idle} /\ RequestOK(q0)
      /\ req \in [Callers -> Requests \cup {Idle}]
      /\ cache \in [Names -> Passwords \cup {None}] /\ CacheInv
      /\ jwts \subseteq Tokens /\ \A j \in jwts : JwtOK(j)
      /\ ever \in [Names -> SUBSET Passwords] /\ users \in [DOMAIN users -> Rows]
      /\ \A i \in DOMAIN users :
            /\ users[i].hash \in ever[users[i].name] /\ i \in Ids /\ i \in 0..MaxAccounts
            /\ i <= created
  BY SessionsAssumption DEF IInv, TypeOK, RequestInv, JwtInv, RowInv, EncFollowsHash, Ids
<1>2. ASSUME NEW q \in Requests \cup {Idle}, RequestOK(q), req' = [req EXCEPT ![r] = q],
             UNCHANGED <<users, created, ever>>,
             cache' \in [Names -> Passwords \cup {None}], CacheInv',
             jwts' \subseteq Tokens, \A j \in jwts' : JwtOK(j)
      PROVE  IInv'
  BY <1>2, RequestStep
<1>3. CacheInv' <=> \A n \in Names : cache'[n] \in ever'[n] \cup {None}
  BY DEF CacheInv
<1>4. ASSUME NEW n \in Names, NEW p \in Passwords, NEW jwt \in SUBSET Tokens,
             \A j \in jwt : JwtOK(j), Begin(r, "login", "verify", n, p, None, 0, jwt),
             UNCHANGED <<users, created, cache, jwts, ever>>
      PROVE  IInv'
  <2> DEFINE q == [op |-> "login", step |-> "verify", name |-> n, pass |-> p,
                   plain |-> None, row |-> 0, jwt |-> jwt, off |-> OffNow]
  <2>1. q \in Requests
    BY OffNowIsOff, SessionsAssumption DEF Requests
  <2>2. RequestOK(q)
    BY <1>4, OffNowIsOff DEF RequestOK, SeedOK
  <2>3. req' = [req EXCEPT ![r] = q]
    BY <1>4 DEF Begin
  <2> HIDE DEF q
  <2> QED
    BY <1>1, <1>2, <1>3, <1>4, <2>1, <2>2, <2>3 DEF CacheInv
<1>5. ASSUME NEW n \in Names, NEW p \in Passwords, PasswordBegin(r, n, p) PROVE IInv'
  BY <1>4, <1>5 DEF PasswordBegin
<1>6. ASSUME NEW n \in Names, NEW p \in Passwords, Login(r, n, p) PROVE IInv'
  <2>1. PICK i \in IdsOf(n) :
           Begin(r, "login", "verify", n, p, None, 0,
                 {[id |-> i, name |-> n]})
    BY <1>6 DEF Login
  <2> DEFINE j == [id |-> i, name |-> n]
  <2>2. i \in DOMAIN users /\ users[i].name = n
    BY DEF IdsOf
  <2>3. j \in Tokens /\ JwtOK(j)
    BY <1>1, <2>2 DEF Tokens, JwtOK, Named
  <2> HIDE DEF j
  <2>4. {j} \in SUBSET Tokens /\ \A k \in {j} : JwtOK(k)
    BY <2>3
  <2>5. Begin(r, "login", "verify", n, p, None, 0, {j})
    BY <2>1 DEF j
  <2> QED
    BY <1>4, <1>6, <2>4, <2>5 DEF Login
<1>7. ASSUME NEW i \in 0..MaxAccounts, q0.op = "login", LoginEnds(r, i),
             i # 0 => q0.pass \in ever[q0.name] /\ i \notin q0.off,
             UNCHANGED <<users, created, ever>>,
             cache' \in [Names -> Passwords \cup {None}], CacheInv'
      PROVE  IInv'
  <2>1. q0 \in Requests
    BY <1>1, <1>7 DEF Idle
  <2>2. jwts' \subseteq Tokens /\ \A j \in jwts' : JwtOK(j)
    BY <1>1, <1>7, <2>1 DEF LoginEnds, RequestOK, Requests
  <2>3. i # 0 => Admitted(q0, i) \in Requests /\ RequestOK(Admitted(q0, i))
    BY <1>1, <1>7, <2>1 DEF Admitted, Requests, RequestOK, SeedOK
  <2>4. \/ req' = [req EXCEPT ![r] = Admitted(q0, i)] /\ i # 0
        \/ req' = [req EXCEPT ![r] = Idle]
    BY <1>7 DEF LoginEnds, Admit, Refuse
  <2> QED
    BY <1>2, <1>7, <2>2, <2>3, <2>4, IdleOK
<1>8. CASE VerifyRead(r)
  <2>1. q0.op = "login" /\ q0.step = "verify" /\ q0 \in Requests
    BY <1>1, <1>8, UnderWay DEF VerifyRead, At
  <2>2. ASSUME NEW i \in IdsOf(q0.name), MayEnter(i), Matches(users[i], q0.pass),
               NEW next \in {"seed", "warm"}, next = "seed" <=> users[i].enc = None,
               req' = [req EXCEPT ![r] = [@ EXCEPT !.step = next, !.row = i]],
               UNCHANGED jwts
        PROVE  IInv'
    <3> DEFINE q == [q0 EXCEPT !.step = next, !.row = i]
    <3>1. /\ i \in DOMAIN users /\ users[i].name = q0.name /\ ~users[i].disabled
          /\ q0.pass \in ever[q0.name]
      BY <1>1, <2>2 DEF IdsOf, MayEnter, Matches
    <3>2. q \in Requests
      BY <1>1, <2>1, <3>1 DEF Requests
    <3>3. users[i].hash = q0.pass
      BY <2>2 DEF Matches
    <3>4. RequestOK(q)
      BY <1>1, <2>1, <3>1, <3>2, <3>3 DEF Requests, RequestOK, SeedOK, Named
    <3> HIDE DEF q
    <3>5. req' = [req EXCEPT ![r] = q]
      BY <2>2 DEF q
    <3> QED
      BY <1>1, <1>2, <1>3, <1>8, <2>2, <3>2, <3>4, <3>5 DEF VerifyRead, CacheInv
  <2>3. LoginEnds(r, 0) => IInv'
    <3>1. 0 \in 0..MaxAccounts
      BY SessionsAssumption
    <3>2. UNCHANGED <<users, created, cache, ever>>
      BY <1>8 DEF VerifyRead
    <3>3. cache' \in [Names -> Passwords \cup {None}] /\ CacheInv'
      BY <1>1, <3>2 DEF CacheInv
    <3> QED
      BY <1>7, <2>1, <3>1, <3>2, <3>3
  <2> QED
    BY <1>8, <2>2, <2>3 DEF VerifyRead
<1>9. CASE VerifySeed(r)
  <2> DEFINE q == [q0 EXCEPT !.step = "warm"]
  <2>1. /\ q0.op = "login" /\ q0.step = "seed" /\ q0 \in Requests
        /\ users' = Update(q0.row, update_encrypted_password(users[q0.row], q0.pass))
        /\ req' = [req EXCEPT ![r] = q] /\ UNCHANGED <<created, cache, jwts, ever>>
    BY <1>1, <1>9 DEF VerifySeed, At, Idle, Goto
  <2>2. /\ q0.name \in Names /\ q0.pass \in ever[q0.name] /\ q0.pass \in Passwords
        /\ q0.row \in DOMAIN users =>
              /\ users[q0.row].name = q0.name
              /\ users[q0.row].overtaken \/ users[q0.row].hash = q0.pass
    BY <1>1, <2>1 DEF RequestOK, SeedOK, Requests, Named
  <2>3. q \in Requests /\ RequestOK(q)
    BY <1>1, <2>1 DEF Requests, RequestOK, SeedOK
  <2>4. users' = [x \in DOMAIN users |->
                    IF x = q0.row THEN [users[x] EXCEPT !.enc = q0.pass] ELSE users[x]]
    BY <1>1, <2>1 DEF Update, update_encrypted_password
  <2>5. users' \in [DOMAIN users' -> Rows] /\ DOMAIN users' = DOMAIN users
    <3>1. ASSUME NEW x \in DOMAIN users
          PROVE  users[x] \in Rows /\ [users[x] EXCEPT !.enc = q0.pass] \in Rows
      BY <1>1, <2>2 DEF Rows
    <3> QED
      BY <2>4, <3>1
  <2>12. ASSUME NEW x \in DOMAIN users
         PROVE  /\ users'[x].name = users[x].name /\ users'[x].hash = users[x].hash
                /\ users'[x].past = users[x].past /\ users'[x].overtaken = users[x].overtaken
                /\ users'[x].cli = users[x].cli /\ users'[x].disabled = users[x].disabled
                /\ users'[x].enc = IF x = q0.row THEN q0.pass ELSE users[x].enc
    BY <1>1, <2>4 DEF Rows
  <2>6. Evolves
    BY <2>1, <2>5, <2>12, SessionsAssumption, SMTT(30) DEF Evolves, IInv, TypeOK
  <2>7. RowInv' /\ EncFollowsHash'
    BY <1>1, <2>1, <2>2, <2>5, <2>12 DEF IInv, RowInv, EncFollowsHash
  <2>8. ASSUME NEW s \in Requests \cup {Idle} PROVE StillOff(s)
    BY <2>5, <2>12 DEF StillOff
  <2> HIDE DEF q
  <2>9. TypeOK'
    BY <2>1, <2>3, <2>5 DEF IInv, TypeOK
  <2>10. RequestInv'
    <3>1. Counted(q)
      BY <2>1 DEF Counted, q, Requests
    <3> QED
      BY <1>1, <2>1, <2>3, <2>6, <2>8, <3>1, RequestStable, AllCounted DEF IInv, RequestInv
  <2>11. CacheInv' /\ JwtInv'
    BY <1>1, <2>1, <2>6, JwtStable DEF IInv, CacheInv, JwtInv
  <2> QED
    BY <2>7, <2>9, <2>10, <2>11 DEF IInv
<1>10. CASE VerifyWarm(r)
  <2>1. /\ q0.op = "login" /\ q0.step = "warm" /\ q0 \in Requests
        /\ cache' = [cache EXCEPT ![q0.name] = q0.pass]
        /\ LoginEnds(r, q0.row) /\ UNCHANGED <<users, created, ever>>
    BY <1>1, <1>10 DEF VerifyWarm, At, Idle
  <2>2. /\ q0.name \in Names /\ q0.row \in 0..MaxAccounts /\ q0.pass \in Passwords
        /\ q0.pass \in ever[q0.name] /\ q0.row \notin q0.off
    BY <1>1, <2>1 DEF RequestOK, Requests
  <2>3. cache' \in [Names -> Passwords \cup {None}] /\ CacheInv'
    BY <1>1, <2>1, <2>2 DEF CacheInv
  <2> QED
    BY <1>7, <2>1, <2>2, <2>3
<1> QED
  BY <1>5, <1>6, <1>8, <1>9, <1>10

\* The change of one's own password, which goes by the id it found under the
\* name in the JWT, where the password given was the right one.
LEMMA ChangeStep ==
  ASSUME IInv, NEW r \in Callers,
         \/ \E j \in jwts, old, new \in Passwords : ChangeBegin(r, j, old, new)
         \/ ChangeFind(r) \/ ChangeWrite(r) \/ ChangeCache(r)
  PROVE  IInv'
<1>0. PICK q0 \in Requests \cup {Idle} : q0 = req[r]
  BY DEF IInv, TypeOK
<1>1. /\ RequestOK(q0)
      /\ req \in [Callers -> Requests \cup {Idle}]
      /\ cache \in [Names -> Passwords \cup {None}] /\ CacheInv
      /\ jwts \subseteq Tokens /\ \A j \in jwts : JwtOK(j)
      /\ \A i \in DOMAIN users :
            i \in 0..MaxAccounts /\ i # 0 /\ i <= created /\ users[i].hash \in users[i].past
      /\ created \in 0..MaxAccounts
  BY <1>0, SessionsAssumption DEF IInv, TypeOK, RequestInv, JwtInv, RowInv, Ids
<1>2. ASSUME NEW j \in jwts, NEW old \in Passwords, NEW new \in Passwords,
             ChangeBegin(r, j, old, new)
      PROVE  IInv'
  <2> DEFINE q == [op |-> "change", step |-> "find", name |-> j.name, pass |-> new,
                   plain |-> old, row |-> 0, jwt |-> {}, off |-> OffNow]
  <2>1. j.name \in Names /\ 0 \notin DOMAIN users /\ 0 \in 0..MaxAccounts /\ 0 <= created
    BY <1>1, SessionsAssumption DEF Tokens
  <2>2. q \in Requests
    BY <2>1, OffNowIsOff DEF Requests
  <2>3. RequestOK(q)
    BY <2>1, OffNowIsOff DEF RequestOK, SeedOK, Named
  <2>4. req' = [req EXCEPT ![r] = q] /\ UNCHANGED <<users, created, cache, jwts, ever>>
    BY <1>2 DEF Begin, ChangeBegin
  <2> HIDE DEF q
  <2> QED
    BY <1>1, <2>2, <2>3, <2>4, RequestStep DEF CacheInv
<1>5. CASE ChangeFind(r)
  <2>1. q0.op = "change" /\ q0.step = "find" /\ q0 \in Requests
    BY <1>0, <1>1, <1>5, UnderWay DEF ChangeFind, At
  <2>2. UNCHANGED <<users, created, cache, jwts, ever>>
    BY <1>5 DEF ChangeFind
  <2>3. ASSUME NEW i \in IdsOf(q0.name), users[i].hash = q0.plain,
               req' = [req EXCEPT ![r] = [q0 EXCEPT !.step = "write", !.row = i]]
        PROVE  IInv'
    <3> DEFINE q == [q0 EXCEPT !.step = "write", !.row = i]
    <3>1. i \in DOMAIN users /\ users[i].name = q0.name
      BY DEF IdsOf
    <3>2. q \in Requests
      BY <1>1, <2>1, <3>1 DEF Requests
    <3>3. RequestOK(q)
      BY <1>1, <2>1, <2>3, <3>1 DEF Requests, RequestOK, SeedOK, Named
    <3>4. req' = [req EXCEPT ![r] = q]
      BY <2>3
    <3> HIDE DEF q
    <3> QED
      BY <1>1, <2>2, <3>2, <3>3, <3>4, RequestStep DEF CacheInv
  <2>4. Refuse(r) => IInv'
    BY <1>1, <2>2, IdleOK, RequestStep DEF Refuse, CacheInv
  <2>5. \/ \E i \in IdsOf(q0.name) :
              /\ users[i].hash = q0.plain
              /\ req' = [req EXCEPT ![r] = [q0 EXCEPT !.step = "write", !.row = i]]
        \/ Refuse(r)
    BY <1>0, <1>1, <1>5 DEF ChangeFind, Matches
  <2> QED
    BY <2>3, <2>4, <2>5
<1>3. CASE ChangeWrite(r)
  <2> DEFINE q == [q0 EXCEPT !.step = "cache"]
  <2>1. /\ q0.op = "change" /\ q0.step = "write" /\ q0 \in Requests
        /\ users' = WithPassword(q0.row, q0.pass)
        /\ ever' = [ever EXCEPT ![q0.name] = @ \cup {q0.pass}]
        /\ req' = [req EXCEPT ![r] = q] /\ UNCHANGED <<created, cache, jwts>>
    BY <1>0, <1>1, <1>3, UnderWay DEF ChangeWrite, At, Goto
  <2>2. /\ q0.name \in Names /\ q0.pass \in Passwords /\ q0.row \in 0..MaxAccounts
        /\ q0.row \in DOMAIN users => users[q0.row].name = q0.name
    BY <1>1, <2>1 DEF RequestOK, Requests, Named
  <2>3. PasswordSet(q0.row, q0.pass)
    BY <2>1, <2>2, PasswordIsSet DEF IInv
  <2>4. /\ users' \in [DOMAIN users' -> Rows] /\ DOMAIN users' \subseteq Ids
        /\ ever' \in [Names -> SUBSET Passwords]
        /\ Evolves /\ RowInv' /\ EncFollowsHash'
        /\ \A s \in Requests \cup {Idle} : StillOff(s)
    BY <2>1, <2>2, <2>3, PasswordSetStep
  <2>5. q \in Requests
    BY <2>1 DEF Requests
  <2>6. RequestOK(q0)'
    BY <1>0, <1>1, <2>1, <2>4, RequestStable, AllCounted DEF IInv
  <2>7. q0.pass \in ever'[q0.name]
    BY <2>1, <2>2 DEF IInv, TypeOK
  <2>8. RequestOK(q)'
    <3>1. ASSUME NEW s \in Requests, s.op = "change", RequestOK(s)', s.pass \in ever'[s.name]
          PROVE  RequestOK([s EXCEPT !.step = "cache"])'
      BY <3>1 DEF RequestOK, SeedOK, Requests
    <3> QED
      BY <2>1, <2>6, <2>7, <3>1
  <2> HIDE DEF q
  <2>9. TypeOK'
    BY <2>1, <2>4, <2>5 DEF IInv, TypeOK
  <2>10. RequestInv'
    BY <1>1, <2>1, <2>4, <2>8, RequestStable, AllCounted DEF IInv, RequestInv
  <2>11. CacheInv' /\ JwtInv'
    BY <1>1, <2>1, <2>4, JwtStable DEF IInv, CacheInv, JwtInv, Evolves
  <2> QED
    BY <2>4, <2>9, <2>10, <2>11 DEF IInv
<1>4. CASE ChangeCache(r)
  <2>1. /\ q0.op = "change" /\ q0.step = "cache" /\ q0 \in Requests
        /\ cache' = [cache EXCEPT ![q0.name] = q0.pass]
        /\ req' = [req EXCEPT ![r] = Idle] /\ UNCHANGED <<users, created, jwts, ever>>
    BY <1>0, <1>1, <1>4, UnderWay DEF ChangeCache, At, Refuse
  <2>2. q0.name \in Names /\ q0.pass \in Passwords /\ q0.pass \in ever[q0.name]
    BY <1>1, <2>1 DEF RequestOK, Requests
  <2>3. cache' \in [Names -> Passwords \cup {None}] /\ CacheInv'
    BY <1>1, <2>1, <2>2 DEF CacheInv
  <2> QED
    BY <1>1, <2>1, <2>3, IdleOK, RequestStep
<1> QED
  BY <1>2, <1>3, <1>4, <1>5

\* A JWT admits to the account of its id if that is there and may enter.
LEMMA JwtUserStep ==
  ASSUME IInv, NEW r \in Callers, \/ \E j \in jwts : JwtUser(r, j)
                                  \/ Served(r)
  PROVE  IInv'
<1>1. /\ req \in [Callers -> Requests \cup {Idle}]
      /\ cache \in [Names -> Passwords \cup {None}] /\ CacheInv
      /\ jwts \subseteq Tokens /\ \A j \in jwts : JwtOK(j)
  BY DEF IInv, TypeOK, JwtInv
<1>2. ASSUME NEW j \in jwts, JwtUser(r, j) PROVE IInv'
  <2> DEFINE n == users[j.id].name
             q == [op |-> "admitted", step |-> "none", name |-> n, pass |-> None,
                   plain |-> None, row |-> j.id, jwt |-> {}, off |-> OffNow]
  <2>1. j.id \in DOMAIN users /\ ~users[j.id].disabled
    BY <1>2 DEF JwtUser, Bearer, MayEnter
  <2>2. n \in Names /\ j.id \in 0..MaxAccounts /\ j.id \notin OffNow
    BY <2>1, OffNowIsOff, SessionsAssumption DEF IInv, TypeOK, Rows, Ids
  <2>3. q \in Requests
    BY <2>2, OffNowIsOff DEF Requests
  <2>4. RequestOK(q)
    BY <2>2, OffNowIsOff DEF RequestOK, SeedOK
  <2>5. req' = [req EXCEPT ![r] = q] /\ UNCHANGED <<users, created, cache, jwts, ever>>
    BY <1>2 DEF Begin, JwtUser
  <2> HIDE DEF q
  <2> QED
    BY <1>1, <2>3, <2>4, <2>5, RequestStep DEF CacheInv
<1>3. CASE Served(r)
  <2>1. req' = [req EXCEPT ![r] = Idle] /\ UNCHANGED <<users, created, cache, jwts, ever>>
    BY <1>3 DEF Served, Refuse
  <2> QED
    BY <1>1, <2>1, IdleOK, RequestStep DEF CacheInv
<1> QED
  BY <1>2, <1>3

-----------------------------------------------------------------------------
(* The invariant *)

\* A restart forgets requests and the cache, and perhaps the secret.
LEMMA RestartStep == IInv /\ Restart => IInv'
<1> SUFFICES ASSUME IInv, Restart PROVE IInv'
  OBVIOUS
<1>1. /\ DOMAIN users' = DOMAIN users
      /\ \A i \in DOMAIN users : \/ users'[i] = users[i]
                                 \/ users'[i] = [users[i] EXCEPT !.enc = Lost]
      /\ users' \in [DOMAIN users' -> Rows] /\ jwts' \subseteq jwts
  <2>1. \A i \in DOMAIN users : users[i] \in Rows /\ [users[i] EXCEPT !.enc = Lost] \in Rows
    BY DEF IInv, TypeOK, Rows
  <2> QED
    BY <2>1 DEF Restart, IInv, TypeOK
<1>2. TypeOK'
  BY <1>1 DEF Restart, IInv, TypeOK
<1>3. RowInv' /\ EncFollowsHash'
  BY <1>1 DEF Restart, IInv, TypeOK, RowInv, EncFollowsHash, Rows
<1>4. CacheInv' /\ RequestInv'
  <2>1. RequestOK(Idle)'
    BY DEF Idle, RequestOK, SeedOK
  <2> QED
    BY <2>1 DEF Restart, CacheInv, RequestInv
<1>5. JwtInv'
  BY <1>1 DEF Restart, IInv, TypeOK, JwtInv, JwtOK, Named, Rows
<1> QED
  BY <1>2, <1>3, <1>4, <1>5 DEF IInv

\* A server without accounts, or with those that never had a copy, satisfies
\* the invariant.
LEMMA InitIInv == Init => IInv
<1> SUFFICES ASSUME Init PROVE IInv
  OBVIOUS
<1>1. TypeOK
  <2>1. ASSUME NEW n \in Names, NEW p \in Passwords PROVE Row(n, p, None) \in Rows
    BY DEF Row, Rows
  <2>2. users \in [1..created -> Rows] /\ created \in 0..MaxAccounts
    BY <2>1 DEF Init
  <2>3. \A i \in 1..created : users[i].hash \in Passwords
    BY <2>2 DEF Rows
  <2>4. ever \in [Names -> SUBSET Passwords]
    BY <2>3 DEF Init
  <2> QED
    BY <2>2, <2>4, SessionsAssumption DEF Init, TypeOK, Ids
<1>2. RowInv /\ EncFollowsHash /\ CacheInv /\ JwtInv
  <2>1. ASSUME NEW i \in DOMAIN users
        PROVE  /\ i <= created /\ users[i].hash \in users[i].past
               /\ users[i].hash \in ever[users[i].name] /\ users[i].enc = None
               /\ users[i].past = {users[i].hash}
    BY DEF Init, Row
  <2> QED
    BY <2>1 DEF Init, RowInv, EncFollowsHash, CacheInv, JwtInv
<1>3. RequestInv
  BY IdleOK DEF Init, RequestInv
<1> QED
  BY <1>1, <1>2, <1>3 DEF IInv

\* The invariant is inductive.
LEMMA StepIInv == IInv /\ [Next]_vars => IInv'
<1> SUFFICES ASSUME IInv, [Next]_vars PROVE IInv'
  OBVIOUS
<1>1. CASE UNCHANGED vars
  BY <1>1 DEF vars, IInv, TypeOK, RowInv, EncFollowsHash, CacheInv, JwtInv, JwtOK,
              Named, RequestInv, RequestOK, SeedOK
<1>2. CASE RequestsNext
  BY <1>2, TokenStep, LoginStep, ChangeStep, JwtUserStep DEF RequestsNext
<1> QED
  BY <1>1, <1>2, AccountsStep, RestartStep DEF Next

\* The invariant holds throughout every behaviour.
THEOREM InductiveInvariant == Spec => []IInv
  BY InitIInv, StepIInv, PTL DEF Spec

\* Every row, every request in flight and both caches keep their types.
THEOREM TypeCorrect == Spec => []TypeOK
<1>1. IInv => TypeOK
  BY DEF IInv
<1> QED
  BY <1>1, InductiveInvariant, PTL

\* The copy of a password that tokens are checked with, where there is one,
\* follows the hash, but for rows that the command line wrote last and those
\* whose change overtook a log-in about to store the copy (auth.py 232-240).
THEOREM CopiesAgree == Spec => []EncFollowsHash
<1>1. IInv => EncFollowsHash
  BY DEF IInv
<1> QED
  BY <1>1, InductiveInvariant, PTL

\* Nobody gets in with, and memory never holds, a password that was not once
\* set for the name by someone entitled to (auth.py 224-278).
THEOREM OnlyKnownPasswords == Spec => []KnownPasswordsOnly
<1>1. IInv => KnownPasswordsOnly
  BY DEF IInv, KnownPasswordsOnly, CacheInv, RequestInv, RequestOK
<1> QED
  BY <1>1, InductiveInvariant, PTL

\* Whoever sets a password through a JWT gave one that the row had, whatever
\* happens to the account and its name meanwhile (web.py 165-187).
THEOREM ChangersKnewThePassword == Spec => []ChangesKnowThePassword
<1>1. IInv => ChangesKnowThePassword
  BY DEF IInv, ChangesKnowThePassword, RequestInv, RequestOK, Named
<1> QED
  BY <1>1, InductiveInvariant, PTL

\* No request is admitted to an account that was disabled or deleted before it
\* began and has been so since (auth.py 280-285).
THEOREM NobodyOffIsAdmitted == Spec => []AdmittedWereEnabled
<1>1. IInv => AdmittedWereEnabled
  BY DEF IInv, AdmittedWereEnabled, RequestInv, RequestOK
<1> QED
  BY <1>1, InductiveInvariant, PTL

-----------------------------------------------------------------------------
(* The throttle: for any keys, budget, window and size of the table.       *)
Ages == 0..Oldest
Trials == [step : {"none", "check", "verify", "record"}, key : Keys \cup {NoKey},
           age : 0..DELAY]

\* The requests that may still fail for a key, and the failures recorded for it.
Counts(q, k) == q.step \in {"verify", "record"} /\ q.key = k
Trying(k) == {r \in Attempts : Counts(trying[r], k)}
Failed(k) == IF k \in DOMAIN failures THEN Len(failures[k]) ELSE 0

\* Whoever is verified now may fail: each was let in on less than the budget.
BudgetInv ==
    \A k \in Keys :
        Failed(k) + Cardinality(Trying(k)) <= MAX_FAILURES + Cardinality(Attempts) - 1

\* A failure was recorded at most a wait for the lock before one that is later.
Near(dq) == \A i, j \in 1..Len(dq) : i < j => dq[j] <= dq[i] + DELAY
OrderInv == \A k \in DOMAIN failures : Near(failures[k])

LogInv == ThrottleTypeOK /\ BudgetInv /\ OrderInv

\* The types, in terms of the sets of this module.
LEMMA LogTypes ==
    ThrottleTypeOK <=>
        /\ DOMAIN failures \subseteq Keys
        /\ failures \in [DOMAIN failures -> Seq(Ages)]
        /\ IsFiniteSet(DOMAIN failures) /\ Cardinality(DOMAIN failures) <= _MAX_KEYS
        /\ trying \in [Attempts -> Trials]
        /\ \A r \in Attempts : trying[r].step # "none" => trying[r].key \in Keys
  BY DEF ThrottleTypeOK, Ages, Trials

\* And those after a step.
LEMMA LogTypesAfter ==
    ASSUME DOMAIN failures' \subseteq Keys, failures' \in [DOMAIN failures' -> Seq(Ages)],
           IsFiniteSet(DOMAIN failures'), Cardinality(DOMAIN failures') <= _MAX_KEYS,
           trying' \in [Attempts -> Trials],
           \A r \in Attempts : trying'[r].step # "none" => trying'[r].key \in Keys
    PROVE  ThrottleTypeOK'
  BY DEF ThrottleTypeOK, Ages, Trials

\* A set of natural numbers that is not empty has a least one.
LEMMA LeastIn ==
  ASSUME NEW S \in SUBSET Nat, S # {} PROVE \E m \in S : \A k \in S : m <= k
<1> DEFINE R == {pair \in Nat \X Nat : pair[1] < pair[2]}
<1>1. IsWellFoundedOn(R, Nat)
  BY NatLessThanWellFounded DEF OpToRel
<1> HIDE DEF R
<1>2. PICK m \in S : \A y \in S : <<y, m>> \notin R
  BY <1>1, WFMin
<1>3. ASSUME NEW y \in S PROVE m <= y
  <2>1. m \in Nat /\ y \in Nat
    OBVIOUS
  <2>2. <<y, m>> \in Nat \X Nat /\ <<y, m>>[1] = y /\ <<y, m>>[2] = m
    BY <2>1
  <2>3. ~(y < m)
    BY <1>2, <2>2 DEF R
  <2> QED
    BY <2>1, <2>3
<1> QED
  BY <1>3

\* Trimming leaves ages, no more of them, and in the order they were.
LEMMA TrimFacts ==
    ASSUME NEW dq \in Seq(Ages), NEW age \in Nat
    PROVE  /\ _trim(dq, age) \in Seq(Ages) /\ Len(_trim(dq, age)) <= Len(dq)
           /\ Near(dq) => Near(_trim(dq, age))
<1> DEFINE kept == {i \in DOMAIN dq : ~Over(dq[i], age)}
<1>1. Len(dq) \in Nat /\ DOMAIN dq = 1..Len(dq) /\ \A i \in 1..Len(dq) : dq[i] \in Ages
  BY LenProperties
<1>2. CASE kept = {}
  <2>1. _trim(dq, age) = << >>
    BY <1>2 DEF _trim
  <2> QED
    BY <1>1, <2>1 DEF Near
<1>3. CASE kept # {}
  <2>1. kept \in SUBSET Nat /\ kept \subseteq 1..Len(dq)
    BY <1>1
  <2> DEFINE first == CHOOSE i \in kept : \A j \in kept : i <= j
  <2>2. _trim(dq, age) = SubSeq(dq, first, Len(dq))
    BY <1>3 DEF _trim
  <2> HIDE DEF kept
  <2>3. first \in kept
    BY <1>3, <2>1, LeastIn
  <2> HIDE DEF first
  <2>4. first \in Int /\ Len(dq) \in Int /\ 1 <= first /\ first <= Len(dq)
        /\ \A i \in first..Len(dq) : dq[i] \in Ages
    BY <1>1, <2>1, <2>3
  <2> DEFINE rest == SubSeq(dq, first, Len(dq))
  <2>5. /\ SubSeq(dq, first, Len(dq)) \in Seq(Ages)
        /\ Len(SubSeq(dq, first, Len(dq)))
              = IF first <= Len(dq) THEN Len(dq) - first + 1 ELSE 0
        /\ \A i \in 1 .. Len(dq) - first + 1 :
              SubSeq(dq, first, Len(dq))[i] = dq[first + i - 1]
    BY <2>4, SubSeqProperties
  <2> HIDE DEF rest
  <2>6. /\ rest \in Seq(Ages) /\ Len(rest) = Len(dq) - first + 1
        /\ \A i \in 1 .. Len(dq) - first + 1 : rest[i] = dq[first + i - 1]
    BY <2>4, <2>5 DEF rest
  <2>7. ASSUME Near(dq), NEW i \in 1..Len(rest), NEW j \in 1..Len(rest), i < j
        PROVE  rest[j] <= rest[i] + DELAY
    <3>1. /\ rest[i] = dq[first + i - 1] /\ rest[j] = dq[first + j - 1]
          /\ first + i - 1 \in 1..Len(dq) /\ first + j - 1 \in 1..Len(dq)
          /\ first + i - 1 < first + j - 1
      BY <1>1, <2>4, <2>6, <2>7
    <3> QED
      BY <2>7, <3>1 DEF Near
  <2>8. Near(dq) => Near(rest)
    BY <2>7 DEF Near
  <2> QED
    BY <1>1, <2>2, <2>4, <2>6, <2>8 DEF rest
<1> QED
  BY <1>2, <1>3

\* What is_blocked leaves behind: the same keys, and no more failures.
LEMMA TrimmedFacts ==
    ASSUME ThrottleTypeOK, OrderInv, NEW k \in Keys, NEW age \in Nat
    PROVE  /\ DOMAIN Trimmed(k, age) = DOMAIN failures
           /\ Trimmed(k, age) \in [DOMAIN failures -> Seq(Ages)]
           /\ \A x \in DOMAIN failures :
                 /\ Len(Trimmed(k, age)[x]) <= Len(failures[x])
                 /\ Near(Trimmed(k, age)[x])
           /\ k \in DOMAIN failures => Trimmed(k, age)[k] = _trim(failures[k], age)
<1>1. \A x \in DOMAIN failures :
         /\ failures[x] \in Seq(Ages) /\ Len(failures[x]) \in Nat
         /\ _trim(failures[x], age) \in Seq(Ages)
         /\ Len(_trim(failures[x], age)) <= Len(failures[x])
         /\ Near(failures[x]) /\ Near(_trim(failures[x], age))
  BY TrimFacts, LenProperties, LogTypes DEF OrderInv
<1>2. failures \in [DOMAIN failures -> Seq(Ages)]
  BY LogTypes
<1>3. CASE k \in DOMAIN failures
  <2>1. DOMAIN failures \cup {k} = DOMAIN failures
    BY <1>3
  <2>2. Trimmed(k, age) = [x \in DOMAIN failures |->
                             IF x = k THEN _trim(failures[k], age) ELSE failures[x]]
    BY <1>3, <2>1 DEF Trimmed, Put
  <2> QED
    BY <1>1, <1>2, <2>2
<1>4. CASE k \notin DOMAIN failures
  <2>1. Trimmed(k, age) = failures
    BY <1>4 DEF Trimmed
  <2> QED
    BY <1>1, <1>2, <1>4, <2>1
<1> QED
  BY <1>3, <1>4

\* Attempts can be counted.
LEMMA RequestCounts ==
    ASSUME NEW C \in SUBSET Attempts
    PROVE  /\ IsFiniteSet(C) /\ Cardinality(C) \in Nat
           /\ Cardinality(Attempts) \in Nat /\ Cardinality(C) <= Cardinality(Attempts)
  BY ThrottleAssumption, FS_Subset, FS_CardinalityType

\* So can those of a key.
LEMMA TryingCounts ==
    ASSUME NEW k
    PROVE  /\ IsFiniteSet(Trying(k)) /\ Cardinality(Trying(k)) \in Nat
           /\ Cardinality(Attempts) \in Nat /\ Cardinality(Trying(k)) <= Cardinality(Attempts)
<1>1. Trying(k) \in SUBSET Attempts
  BY DEF Trying
<1> QED
  BY <1>1, RequestCounts

\* Where a request moves to a step that counts alike, the same requests count.
LEMMA TryingSame ==
    ASSUME \A r \in Attempts, k \in Keys : Counts(trying'[r], k) <=> Counts(trying[r], k)
    PROVE  \A k \in Keys : Trying(k)' = Trying(k)
  BY DEF Trying

\* One more request is verified for k, and none more for other keys.
LEMMA TryingMore ==
    ASSUME ThrottleTypeOK, NEW r \in Attempts, NEW k \in Keys,
           ~Counts(trying[r], k), trying[r].step = "check", Proceeds(r, "verify", k)
    PROVE  /\ Cardinality(Trying(k)') = Cardinality(Trying(k)) + 1
           /\ \A x \in Keys \ {k} : Trying(x)' = Trying(x)
<1>1. /\ \A s \in Attempts \ {r} : trying'[s] = trying[s]
      /\ trying'[r].step = "verify" /\ trying'[r].key = k
  BY LogTypes DEF Proceeds
<1>2. Trying(k)' = Trying(k) \cup {r} /\ r \notin Trying(k)
  BY <1>1 DEF Trying, Counts
<1>3. Cardinality(Trying(k) \cup {r}) = Cardinality(Trying(k)) + 1
  BY <1>2, TryingCounts, FS_AddElement
<1>4. \A x \in Keys \ {k} : Trying(x)' = Trying(x)
  BY <1>1 DEF Trying, Counts
<1> QED
  BY <1>2, <1>3, <1>4

\* One request less is verified for k, and none less for other keys.
LEMMA TryingLess ==
    ASSUME ThrottleTypeOK, NEW r \in Attempts, NEW k \in Keys,
           Counts(trying[r], k), Leaves(r)
    PROVE  /\ Cardinality(Trying(k)') = Cardinality(Trying(k)) - 1
           /\ \A x \in Keys \ {k} : Trying(x)' = Trying(x)
<1>1. /\ \A s \in Attempts \ {r} : trying'[s] = trying[s]
      /\ trying'[r].step = "none"
  BY LogTypes DEF Leaves, NotTrying
<1>2. Trying(k)' = Trying(k) \ {r} /\ r \in Trying(k)
  BY <1>1 DEF Trying, Counts
<1>3. Cardinality(Trying(k) \ {r}) = Cardinality(Trying(k)) - 1
  BY <1>2, TryingCounts, FS_RemoveElement
<1>4. \A x \in Keys \ {k} : Trying(x)' = Trying(x)
  BY <1>1 DEF Trying, Counts
<1> QED
  BY <1>2, <1>3, <1>4

\* A request that leaves, or reads the clock and goes on, keeps the types.
LEMMA TryingTypes ==
    ASSUME ThrottleTypeOK, NEW r \in Attempts, NEW k \in Keys,
           \/ Leaves(r)
           \/ \E step \in {"check", "verify", "record"} : Proceeds(r, step, k)
    PROVE  /\ trying' \in [Attempts -> Trials]
           /\ \A s \in Attempts : trying'[s].step # "none" => trying'[s].key \in Keys
<1>1. 0 \in 0..DELAY
  BY ThrottleAssumption
<1>2. NotTrying \in Trials /\ NotTrying.step = "none"
  BY <1>1 DEF NotTrying, Trials
<1>3. \A step \in {"check", "verify", "record"} : [step |-> step, key |-> k, age |-> 0] \in Trials
  BY <1>1 DEF Trials
<1>4. /\ trying \in [Attempts -> Trials]
      /\ \A s \in Attempts : trying[s].step # "none" => trying[s].key \in Keys
  BY LogTypes
<1>5. CASE Leaves(r)
  <2> HIDE DEF NotTrying
  <2> QED
    BY <1>2, <1>4, <1>5 DEF Leaves
<1>6. ASSUME NEW step \in {"check", "verify", "record"}, Proceeds(r, step, k)
      PROVE  /\ trying' \in [Attempts -> Trials]
             /\ \A s \in Attempts : trying'[s].step # "none" => trying'[s].key \in Keys
  <2> DEFINE new == [step |-> step, key |-> k, age |-> 0]
  <2>1. new \in Trials /\ new.key \in Keys
    BY <1>3
  <2>2. trying' = [trying EXCEPT ![r] = new]
    BY <1>6 DEF Proceeds
  <2> HIDE DEF new
  <2> QED
    BY <1>4, <2>1, <2>2
<1> QED
  BY <1>5, <1>6

\* A part of the table that eviction may leave to make room for k: it has room,
\* and the last failure of its keys is none before that of one that goes.
Spares(E, k) ==
    /\ E \subseteq DOMAIN failures
    /\ k \in DOMAIN failures => E = DOMAIN failures
    /\ IsFiniteSet(E \cup {k}) /\ Cardinality(E \cup {k}) <= _MAX_KEYS
    /\ \A d \in DOMAIN failures \ E, x \in E : failures[d] # << >> =>
          failures[x] # << >> /\ Latest(failures, x) <= Latest(failures, d)

\* When the table is full, expired keys go, and then the older half.
LEMMA EvictFacts ==
    ASSUME ThrottleTypeOK, NEW k \in Keys \ DOMAIN failures,
           NEW age \in Nat, NEW table \in _evict(age)
    PROVE  \E E : table = [x \in E |-> failures[x]] /\ Spares(E, k)
<1> DEFINE Live == {x \in DOMAIN failures : ~Expired(x, age)}
           live == [x \in Live |-> failures[x]]
<1>1. /\ _MAX_KEYS \in Nat \ {0, 1} /\ WINDOW \in Nat
      /\ IsFiniteSet(DOMAIN failures) /\ Cardinality(DOMAIN failures) <= _MAX_KEYS
  BY LogTypes, ThrottleAssumption
<1>2. Live \in SUBSET DOMAIN failures
  OBVIOUS
<1>3. /\ IsFiniteSet(Live) /\ Cardinality(Live) \in Nat
      /\ Cardinality(DOMAIN failures) \in Nat
      /\ Cardinality(Live) <= Cardinality(DOMAIN failures)
  <2> HIDE DEF Live
  <2> QED
    BY <1>1, <1>2, FS_Subset, FS_CardinalityType
<1>4. DOMAIN live = Live /\ Restrict(failures, Live) = live
  BY DEF Restrict
<1>5. \A d \in DOMAIN failures \ Live, x \in Live : failures[d] # << >> =>
         failures[x] # << >> /\ Latest(failures, x) <= Latest(failures, d)
  <2>1. \A x \in DOMAIN failures : failures[x] # << >> => Latest(failures, x) \in Int
    <3>1. ASSUME NEW x \in DOMAIN failures, failures[x] # << >> PROVE Latest(failures, x) \in Int
      <4>1. failures[x] \in Seq(Ages) /\ failures[x][Len(failures[x])] \in Ages
        BY <3>1, LogTypes
      <4> QED
        BY <4>1, ThrottleAssumption DEF Latest, Ages, Oldest
    <3> QED
      BY <3>1
  <2> QED
    BY <1>1, <2>1 DEF Expired, Over
<1>6. CASE Cardinality(Live) < _MAX_KEYS
  <2>1. table = live
    BY <1>4, <1>6 DEF _evict
  <2>2. IsFiniteSet(Live \cup {k}) /\ Cardinality(Live \cup {k}) <= _MAX_KEYS
    <3> HIDE DEF Live
    <3>1. /\ IsFiniteSet(Live \cup {k})
          /\ Cardinality(Live \cup {k}) =
                IF k \in Live THEN Cardinality(Live) ELSE Cardinality(Live) + 1
      BY <1>3, FS_AddElement
    <3> QED
      BY <1>1, <1>3, <1>6, <3>1
  <2>3. Spares(Live, k)
    <3> HIDE DEF Live
    <3> QED
      BY <1>2, <1>5, <2>2 DEF Spares
  <2> QED
    BY <2>1, <2>3
<1>7. CASE ~(Cardinality(Live) < _MAX_KEYS)
  <2>0. PICK D \in OldestHalf(live) : table = Restrict(live, DOMAIN live \ D)
    <3>1. table \in {Restrict(live, DOMAIN live \ D) : D \in OldestHalf(live)}
      BY <1>4, <1>7 DEF _evict
    <3> HIDE DEF live
    <3> QED
      BY <3>1
  <2>1. /\ D \in SUBSET Live /\ Cardinality(D) = _MAX_KEYS \div 2
        /\ \A d \in D, x \in Live \ D : live[d][Len(live[d])] >= live[x][Len(live[x])]
    BY <1>4 DEF OldestHalf, Latest
  <2>2. table = [x \in Live \ D |-> failures[x]]
    BY <1>4, <2>0, <2>1 DEF Restrict
  <2>3. \A d \in D, x \in Live \ D :
           failures[x] # << >> /\ Latest(failures, d) >= Latest(failures, x)
    <3>1. \A d \in Live : /\ Latest(failures, d) = live[d][Len(live[d])]
                          /\ failures[d] # << >>
      BY DEF Latest, Expired
    <3> HIDE DEF Live, live
    <3> QED
      BY <2>1, <3>1
  <2>4. IsFiniteSet((Live \ D) \cup {k}) /\ Cardinality((Live \ D) \cup {k}) <= _MAX_KEYS
    <3> HIDE DEF Live
    <3>1. Live \cap D = D /\ k \notin Live \ D
      BY <1>2, <2>1
    <3>2. /\ IsFiniteSet(Live \ D)
          /\ Cardinality(Live \ D) = Cardinality(Live) - Cardinality(D)
      BY <1>3, <3>1, FS_Difference
    <3>3. /\ IsFiniteSet((Live \ D) \cup {k})
          /\ Cardinality((Live \ D) \cup {k}) = Cardinality(Live \ D) + 1
      BY <3>1, <3>2, FS_AddElement
    <3> QED
      BY <1>1, <1>3, <2>1, <3>2, <3>3
  <2>5. Spares(Live \ D, k)
    <3> HIDE DEF Live
    <3>1. \A d \in DOMAIN failures \ (Live \ D), x \in Live \ D : failures[d] # << >> =>
             failures[x] # << >> /\ Latest(failures, x) <= Latest(failures, d)
      BY <1>2, <1>5, <2>1, <2>3
    <3> QED
      BY <1>2, <2>4, <3>1 DEF Spares
  <2> QED
    BY <2>2, <2>5
<1> QED
  BY <1>6, <1>7

\* What record_failure finds after it has made room.
LEMMA RoomFacts ==
    ASSUME ThrottleTypeOK, NEW k \in Keys, NEW age \in Nat, NEW table \in Room(k, age)
    PROVE  \E E : table = [x \in E |-> failures[x]] /\ Spares(E, k)
<1>1. /\ _MAX_KEYS \in Nat \ {0, 1}
      /\ IsFiniteSet(DOMAIN failures) /\ Cardinality(DOMAIN failures) <= _MAX_KEYS
      /\ failures = [x \in DOMAIN failures |-> failures[x]]
  BY LogTypes, ThrottleAssumption
<1>2. Cardinality(DOMAIN failures) \in Nat
  BY <1>1, FS_CardinalityType
<1>3. CASE k \notin DOMAIN failures /\ Cardinality(DOMAIN failures) >= _MAX_KEYS
  BY <1>3, EvictFacts DEF Room
<1>4. CASE ~(k \notin DOMAIN failures /\ Cardinality(DOMAIN failures) >= _MAX_KEYS)
  <2>1. table = failures
    BY <1>4 DEF Room
  <2>2. /\ IsFiniteSet(DOMAIN failures \cup {k})
        /\ Cardinality(DOMAIN failures \cup {k}) =
              IF k \in DOMAIN failures THEN Cardinality(DOMAIN failures)
              ELSE Cardinality(DOMAIN failures) + 1
    BY <1>1, FS_AddElement
  <2>3. Spares(DOMAIN failures, k)
    BY <1>1, <1>2, <1>4, <2>2 DEF Spares
  <2> QED
    BY <1>1, <2>1, <2>3
<1> QED
  BY <1>3, <1>4

\* A failure of k is added to what is left of the table.
FailsInto(E, k) ==
    /\ Spares(E, k)
    /\ failures' \in [E \cup {k} -> Seq(Ages)]
    /\ Failed(k)' <= Failed(k) + 1
    /\ \A x \in E \ {k} : failures'[x] = failures[x]
    /\ Near(failures'[k])

\* What record_failure does to the table: k has one failure more, and fewer of
\* them if some have expired meanwhile.
LEMMA RecordFacts ==
    ASSUME ThrottleTypeOK, OrderInv, NEW k \in Keys, NEW age \in 0..DELAY,
           record_failure(k, age)
    PROVE  \E E : FailsInto(E, k)
<1>0. age \in Nat /\ age \in Ages
  BY ThrottleAssumption DEF Ages, Oldest
<1>1. PICK table \in Room(k, age) :
         failures' = Put(table, k, _trim(Append(
                        IF k \in DOMAIN table THEN table[k] ELSE << >>, age), age))
  BY DEF record_failure
<1>2. PICK E : table = [x \in E |-> failures[x]] /\ Spares(E, k)
  BY <1>0, RoomFacts
<1> DEFINE dq == IF k \in DOMAIN table THEN table[k] ELSE << >>
           new == _trim(Append(dq, age), age)
<1>3. DOMAIN table = E /\ E \subseteq DOMAIN failures
      /\ \A x \in E : /\ table[x] = failures[x] /\ failures[x] \in Seq(Ages)
                       /\ Near(failures[x])
  BY <1>2, LogTypes DEF Spares, OrderInv
<1>4. dq \in Seq(Ages) /\ Len(dq) = Failed(k) /\ Near(dq)
  <2>1. CASE k \in E
    BY <1>3, <2>1 DEF Failed
  <2>2. CASE k \notin E
    <3>1. k \notin DOMAIN failures
      BY <1>2, <2>2 DEF Spares
    <3>2. dq = << >>
      BY <1>3, <2>2
    <3>3. Failed(k) = 0
      BY <3>1 DEF Failed
    <3>4. << >> \in Seq(Ages) /\ Len(<< >>) = 0 /\ Near(<< >>)
      BY DEF Near
    <3> HIDE DEF dq
    <3> QED
      BY <3>2, <3>3, <3>4
  <2> QED
    BY <2>1, <2>2
<1>5. new \in Seq(Ages) /\ Len(new) <= Failed(k) + 1 /\ Near(new)
  <2> HIDE DEF dq
  <2>1. /\ Len(dq) \in Nat /\ DOMAIN dq = 1..Len(dq)
        /\ \A i \in 1..Len(dq) : dq[i] \in Ages /\ dq[i] \in Nat
    BY <1>4, LenProperties, ThrottleAssumption DEF Ages, Oldest
  <2>2. /\ Append(dq, age) \in Seq(Ages) /\ Len(Append(dq, age)) = Len(dq) + 1
        /\ \A i \in 1..Len(dq) : Append(dq, age)[i] = dq[i]
        /\ Append(dq, age)[Len(dq) + 1] = age
    BY <1>0, <1>4, AppendProperties
  <2>3. Near(Append(dq, age))
    <3> DEFINE more == Append(dq, age)
    <3>1. /\ Len(more) = Len(dq) + 1 /\ \A i \in 1..Len(dq) : more[i] = dq[i]
          /\ more[Len(dq) + 1] = age
      BY <2>2
    <3> HIDE DEF more
    <3>2. ASSUME NEW i \in 1..Len(more), NEW j \in 1..Len(more), i < j
          PROVE  more[j] <= more[i] + DELAY
      <4>1. i \in 1..Len(dq) /\ more[i] = dq[i]
        BY <2>1, <3>1, <3>2
      <4>2. CASE j = Len(dq) + 1
        BY <1>0, <2>1, <3>1, <4>1, <4>2, ThrottleAssumption
      <4>3. CASE j \in 1..Len(dq)
        BY <1>4, <3>1, <3>2, <4>1, <4>3 DEF Near
      <4> QED
        BY <2>1, <3>1, <4>2, <4>3
    <3>3. Near(more)
      BY <3>2 DEF Near
    <3> QED
      BY <3>3 DEF more
  <2>4. /\ _trim(Append(dq, age), age) \in Seq(Ages)
        /\ Len(_trim(Append(dq, age), age)) <= Len(Append(dq, age))
        /\ Near(_trim(Append(dq, age), age))
    BY <1>0, <2>2, <2>3, TrimFacts
  <2> QED
    BY <1>4, <2>2, <2>4
<1> HIDE DEF new
<1>6. failures' = [x \in E \cup {k} |-> IF x = k THEN new ELSE table[x]]
  BY <1>1, <1>3 DEF Put, new
<1>7. failures' \in [E \cup {k} -> Seq(Ages)] /\ Near(failures'[k])
      /\ \A x \in E \ {k} : failures'[x] = failures[x]
  BY <1>3, <1>5, <1>6
<1>8. Failed(k)' <= Failed(k) + 1
  BY <1>5, <1>6 DEF Failed
<1> QED
  BY <1>2, <1>7, <1>8 DEF FailsInto

-----------------------------------------------------------------------------
(* Steps *)

\* Nothing has failed yet.
LEMMA InitLogInv == ThrottleInit => LogInv
<1> SUFFICES ASSUME ThrottleInit PROVE LogInv
  OBVIOUS
<1>1. failures = << >> /\ DOMAIN failures = {} /\ trying = [r \in Attempts |-> NotTrying]
  BY DEF ThrottleInit
<1>2. ThrottleTypeOK
  <2>1. failures \in [DOMAIN failures -> Seq(Ages)]
    BY <1>1
  <2>2. NotTrying \in Trials /\ NotTrying.step = "none"
    BY ThrottleAssumption DEF NotTrying, Trials
  <2> QED
    BY <1>1, <2>1, <2>2, FS_EmptySet, LogTypes, ThrottleAssumption
<1>3. BudgetInv
  <2> SUFFICES ASSUME NEW k \in Keys
               PROVE  Failed(k) + Cardinality(Trying(k)) <= MAX_FAILURES + Cardinality(Attempts) - 1
    BY DEF BudgetInv
  <2>1. Trying(k) = {} /\ Failed(k) = 0
    BY <1>1, ThrottleAssumption DEF Trying, Counts, NotTrying, Failed
  <2> QED
    BY <2>1, TryingCounts, ThrottleAssumption, FS_EmptySet
<1>4. OrderInv
  BY <1>1 DEF OrderInv
<1> QED
  BY <1>2, <1>3, <1>4 DEF LogInv

\* Reading the clock, before the check or after a failure, changes no count.
LEMMA ClockStep ==
    ASSUME LogInv, NEW r \in Attempts,
           (\E k \in Keys : TryBegin(r, k)) \/ TryFails(r)
    PROVE  LogInv'
<1> USE DEF LogInv
<1>1. PICK k \in Keys, step \in {"check", "record"} :
         /\ Proceeds(r, step, k) /\ UNCHANGED failures
         /\ \/ step = "check" /\ trying[r].step = "none"
            \/ step = "record" /\ trying[r].step = "verify" /\ trying[r].key = k
  <2>1. \A s \in Attempts : trying[s].step # "none" => trying[s].key \in Keys
    BY LogTypes
  <2> QED
    BY <2>1 DEF TryBegin, TryFails
<1>2. ThrottleTypeOK'
  <2>1. /\ trying' \in [Attempts -> Trials]
        /\ \A s \in Attempts : trying'[s].step # "none" => trying'[s].key \in Keys
    BY <1>1, TryingTypes
  <2> QED
    BY <1>1, <2>1, LogTypes, LogTypesAfter
<1>3. \A x \in Keys : Trying(x)' = Trying(x)
  <2>1. /\ \A s \in Attempts \ {r} : trying'[s] = trying[s]
        /\ trying'[r].step = step /\ trying'[r].key = k
    BY <1>1, LogTypes DEF Proceeds
  <2>2. \A x \in Keys : Counts(trying'[r], x) <=> Counts(trying[r], x)
    BY <1>1, <2>1 DEF Counts
  <2>3. \A s \in Attempts, x \in Keys : Counts(trying'[s], x) <=> Counts(trying[s], x)
    BY <2>1, <2>2
  <2> QED
    BY <2>3, TryingSame
<1>4. \A x : Failed(x)' = Failed(x)
  BY <1>1 DEF Failed
<1>5. OrderInv'
  BY <1>1 DEF OrderInv
<1> QED
  BY <1>2, <1>3, <1>4, <1>5 DEF BudgetInv

\* is_blocked refuses, or lets one more request in on less than the budget.
LEMMA TryCheckStep ==
    ASSUME LogInv, NEW r \in Attempts, TryCheck(r)
    PROVE  LogInv'
<1> USE DEF LogInv
<1>0. PICK k \in Keys, age \in Nat : k = trying[r].key /\ age = trying[r].age
  <2>1. trying[r] \in Trials /\ trying[r].step = "check"
    BY LogTypes DEF TryCheck
  <2> QED
    BY <2>1, LogTypes, ThrottleAssumption DEF Trials
<1>1. failures' = Trimmed(k, age) /\ trying[r].step = "check"
  BY <1>0 DEF TryCheck
<1>2. /\ DOMAIN failures' = DOMAIN failures
      /\ failures' \in [DOMAIN failures -> Seq(Ages)]
      /\ \A x \in DOMAIN failures : /\ Len(failures'[x]) <= Len(failures[x])
                                    /\ Near(failures'[x])
  BY <1>1, TrimmedFacts
<1>3. /\ \A x \in Keys : Failed(x) \in Nat /\ Failed(x)' \in Nat
      /\ \A x \in Keys : Failed(x)' <= Failed(x)
  BY <1>2, LogTypes, LenProperties DEF Failed
<1>6. Leaves(r) \/ (~is_blocked(k, age) /\ Proceeds(r, "verify", k))
  BY <1>0 DEF TryCheck
<1>7. ThrottleTypeOK'
  <2>1. /\ trying' \in [Attempts -> Trials]
        /\ \A s \in Attempts : trying'[s].step # "none" => trying'[s].key \in Keys
    BY <1>6, TryingTypes
  <2> QED
    BY <1>2, <2>1, LogTypes, LogTypesAfter
<1>8. OrderInv'
  BY <1>2 DEF OrderInv
<1>4. CASE Leaves(r)
  <2>1. /\ \A s \in Attempts \ {r} : trying'[s] = trying[s]
        /\ trying'[r].step = "none"
    BY <1>4, LogTypes DEF Leaves, NotTrying
  <2>2. \A s \in Attempts, x \in Keys : Counts(trying'[s], x) <=> Counts(trying[s], x)
    BY <1>1, <2>1 DEF Counts
  <2>3. \A x \in Keys : Trying(x)' = Trying(x)
    BY <2>2, TryingSame
  <2> QED
    BY <1>3, <1>7, <1>8, <2>3, TryingCounts, ThrottleAssumption DEF BudgetInv
<1>5. CASE ~is_blocked(k, age) /\ Proceeds(r, "verify", k)
  <2>1. Failed(k)' < MAX_FAILURES
    <3>1. CASE k \in DOMAIN failures
      <4>1. _trim(failures[k], age) \in Seq(Ages) /\ failures'[k] = _trim(failures[k], age)
        BY <1>1, <3>1, TrimFacts, TrimmedFacts, LogTypes
      <4> QED
        BY <1>2, <1>5, <3>1, <4>1, ThrottleAssumption, LenProperties DEF is_blocked, Failed
    <3>2. CASE k \notin DOMAIN failures
      BY <1>2, <3>2, ThrottleAssumption DEF Failed
    <3> QED
      BY <3>1, <3>2
  <2>3. /\ Cardinality(Trying(k)') = Cardinality(Trying(k)) + 1
        /\ \A x \in Keys \ {k} : Trying(x)' = Trying(x)
    <3>1. ~Counts(trying[r], k)
      BY <1>1 DEF Counts
    <3> QED
      BY <1>1, <1>5, <3>1, TryingMore
  <2>4. Cardinality(Trying(k)') <= Cardinality(Attempts)
    <3>1. Trying(k)' \in SUBSET Attempts
      BY DEF Trying
    <3> QED
      BY <3>1, RequestCounts
  <2> QED
    BY <1>3, <1>7, <1>8, <2>1, <2>3, <2>4, TryingCounts, ThrottleAssumption DEF BudgetInv
<1> QED
  BY <1>4, <1>5, <1>6

\* A failure is recorded by a request that was counted for its key.
LEMMA TryRecordStep ==
    ASSUME LogInv, NEW r \in Attempts, TryRecord(r)
    PROVE  LogInv'
<1> USE DEF LogInv
<1>0. PICK k \in Keys, age \in 0..DELAY : k = trying[r].key /\ age = trying[r].age
  <2>1. trying[r] \in Trials /\ trying[r].step = "record"
    BY LogTypes DEF TryRecord
  <2> QED
    BY <2>1, LogTypes DEF Trials
<1>1. Counts(trying[r], k) /\ Leaves(r) /\ record_failure(k, age)
  BY <1>0 DEF TryRecord, Counts
<1>2. PICK E : /\ Spares(E, k)
               /\ failures' \in [E \cup {k} -> Seq(Ages)]
               /\ Failed(k)' <= Failed(k) + 1
               /\ \A x \in E \ {k} : failures'[x] = failures[x]
               /\ Near(failures'[k])
  <2>1. ThrottleTypeOK /\ OrderInv
    OBVIOUS
  <2>2. \E E : FailsInto(E, k)
    BY <1>1, <2>1, RecordFacts
  <2> QED
    BY <2>2 DEF FailsInto
<1>3. DOMAIN failures' = E \cup {k} /\ E \subseteq DOMAIN failures
  BY <1>2 DEF Spares
<1>4. ThrottleTypeOK'
  <2>1. /\ trying' \in [Attempts -> Trials]
        /\ \A s \in Attempts : trying'[s].step # "none" => trying'[s].key \in Keys
    BY <1>1, TryingTypes
  <2> QED
    BY <1>2, <1>3, <2>1, LogTypes, LogTypesAfter DEF Spares
<1>5. \A x \in Keys : Failed(x) \in Nat /\ Failed(x)' \in Nat
  BY <1>2, <1>3, LogTypes, LenProperties DEF Failed
<1>6. \A x \in Keys \ {k} : Failed(x)' <= Failed(x)
  BY <1>2, <1>3, <1>5 DEF Failed
<1>7. /\ Cardinality(Trying(k)') = Cardinality(Trying(k)) - 1
      /\ \A x \in Keys \ {k} : Trying(x)' = Trying(x)
  BY <1>1, TryingLess
<1>8. BudgetInv'
  <2> SUFFICES ASSUME NEW x \in Keys
               PROVE  Failed(x)' + Cardinality(Trying(x)')
                        <= MAX_FAILURES + Cardinality(Attempts) - 1
    BY DEF BudgetInv
  <2>1. Failed(x) + Cardinality(Trying(x)) <= MAX_FAILURES + Cardinality(Attempts) - 1
    BY DEF BudgetInv
  <2>2. Cardinality(Trying(x)) \in Nat /\ Cardinality(Attempts) \in Nat
    BY TryingCounts
  <2> QED
    BY <1>2, <1>5, <1>6, <1>7, <2>1, <2>2, ThrottleAssumption
<1>9. OrderInv'
  BY <1>2, <1>3 DEF OrderInv
<1> QED
  BY <1>4, <1>8, <1>9

\* A log-in that succeeds clears the failures of its key.
LEMMA TrySucceedsStep ==
    ASSUME LogInv, NEW r \in Attempts, TrySucceeds(r)
    PROVE  LogInv'
<1> USE DEF LogInv
<1>0. PICK k \in Keys : k = trying[r].key
  BY LogTypes DEF TrySucceeds
<1>1. /\ Counts(trying[r], k) /\ Leaves(r)
      /\ failures' = [x \in DOMAIN failures \ {k} |-> failures[x]]
  BY <1>0 DEF TrySucceeds, record_success, Restrict, Counts
<1>2. /\ DOMAIN failures' = DOMAIN failures \ {k}
      /\ failures' \in [DOMAIN failures' -> Seq(Ages)]
  BY <1>1, LogTypes
<1>3. IsFiniteSet(DOMAIN failures') /\ Cardinality(DOMAIN failures') <= _MAX_KEYS
  <2>1. IsFiniteSet(DOMAIN failures) /\ Cardinality(DOMAIN failures) <= _MAX_KEYS
    BY LogTypes
  <2>2. /\ Cardinality(DOMAIN failures) \in Nat
        /\ DOMAIN failures \ {k} \in SUBSET DOMAIN failures
    BY <2>1, FS_CardinalityType
  <2>3. /\ IsFiniteSet(DOMAIN failures \ {k}) /\ Cardinality(DOMAIN failures \ {k}) \in Nat
        /\ Cardinality(DOMAIN failures \ {k}) <= Cardinality(DOMAIN failures)
    BY <2>1, <2>2, FS_Subset, FS_CardinalityType
  <2> QED
    BY <1>2, <2>1, <2>2, <2>3, ThrottleAssumption
<1>4. ThrottleTypeOK'
  <2>1. /\ trying' \in [Attempts -> Trials]
        /\ \A s \in Attempts : trying'[s].step # "none" => trying'[s].key \in Keys
    BY <1>1, TryingTypes
  <2> QED
    BY <1>2, <1>3, <2>1, LogTypes, LogTypesAfter
<1>5. \A x \in Keys : Failed(x) \in Nat /\ Failed(x)' \in Nat /\ Failed(x)' <= Failed(x)
  BY <1>1, <1>2, LogTypes, LenProperties DEF Failed
<1>6. /\ Cardinality(Trying(k)') = Cardinality(Trying(k)) - 1
      /\ \A x \in Keys \ {k} : Trying(x)' = Trying(x)
  BY <1>1, TryingLess
<1>7. BudgetInv'
  BY <1>5, <1>6, TryingCounts, ThrottleAssumption DEF BudgetInv
<1>8. OrderInv'
  BY <1>1, <1>2 DEF OrderInv
<1> QED
  BY <1>4, <1>7, <1>8

\* Time passes: failures grow older, not more.
LEMMA TickStep == ASSUME LogInv, Tick PROVE LogInv'
<1> USE DEF LogInv
<1>1. failures' = [k \in DOMAIN failures |-> Older(failures[k])]
  BY DEF Tick
<1>2. \A dq \in Seq(Ages) : /\ Older(dq) \in Seq(Ages) /\ Len(Older(dq)) = Len(dq)
                            /\ Near(dq) => Near(Older(dq))
  <2> SUFFICES ASSUME NEW dq \in Seq(Ages)
               PROVE  /\ Older(dq) \in Seq(Ages) /\ Len(Older(dq)) = Len(dq)
                      /\ Near(dq) => Near(Older(dq))
    OBVIOUS
  <2>1. Len(dq) \in Nat /\ DOMAIN dq = 1..Len(dq) /\ \A i \in 1..Len(dq) : dq[i] \in Ages
    BY LenProperties
  <2>2. Older(dq) \in [1..Len(dq) -> Ages]
    BY <2>1, ThrottleAssumption DEF Older, Ages, Oldest
  <2>3. Older(dq) \in Seq(Ages) /\ Len(Older(dq)) = Len(dq)
    BY <2>1, <2>2, SeqDef, LenProperties
  <2>4. ASSUME NEW i \in 1..Len(dq), NEW j \in 1..Len(dq), dq[j] <= dq[i] + DELAY
        PROVE  Older(dq)[j] <= Older(dq)[i] + DELAY
    <3>1. dq[i] \in 0..Oldest /\ dq[j] \in 0..Oldest /\ Oldest \in Nat
      BY <2>1, ThrottleAssumption DEF Ages, Oldest
    <3>2. /\ Older(dq)[i] = IF dq[i] = Oldest THEN Oldest ELSE dq[i] + 1
          /\ Older(dq)[j] = IF dq[j] = Oldest THEN Oldest ELSE dq[j] + 1
      BY <2>1 DEF Older
    <3> QED
      BY <2>4, <3>1, <3>2, ThrottleAssumption
  <2> QED
    BY <2>3, <2>4 DEF Near
<1>3. /\ DOMAIN failures' = DOMAIN failures
      /\ failures' \in [DOMAIN failures -> Seq(Ages)]
      /\ \A k \in DOMAIN failures : Len(failures'[k]) = Len(failures[k]) /\ Near(failures'[k])
  BY <1>1, <1>2, LogTypes DEF OrderInv
<1>4. \A r \in Attempts : /\ trying'[r] \in Trials
                          /\ trying'[r].step = trying[r].step /\ trying'[r].key = trying[r].key
  <2> SUFFICES ASSUME NEW r \in Attempts
               PROVE  /\ trying'[r] \in Trials
                      /\ trying'[r].step = trying[r].step /\ trying'[r].key = trying[r].key
    OBVIOUS
  <2>1. trying[r] \in Trials
    BY LogTypes
  <2>2. CASE Waiting(r)
    <3>1. trying'[r] = [trying[r] EXCEPT !.age = @ + 1] /\ trying[r].age < DELAY
      BY <2>2 DEF Tick
    <3> QED
      BY <2>1, <3>1, ThrottleAssumption DEF Trials
  <2>3. CASE ~Waiting(r)
    <3>1. trying'[r] = trying[r]
      BY <2>3 DEF Tick
    <3> QED
      BY <2>1, <3>1
  <2> QED
    BY <2>2, <2>3
<1>5. ThrottleTypeOK'
  <2>1. trying' \in [Attempts -> Trials]
    BY <1>4 DEF Tick
  <2>2. \A r \in Attempts : trying'[r].step # "none" => trying'[r].key \in Keys
    BY <1>4, LogTypes
  <2> QED
    BY <1>3, <2>1, <2>2, LogTypes, LogTypesAfter
<1>6. \A k \in Keys : Failed(k)' = Failed(k) /\ Trying(k)' = Trying(k)
  <2>1. \A r \in Attempts, k \in Keys : Counts(trying'[r], k) <=> Counts(trying[r], k)
    BY <1>4 DEF Counts
  <2>2. \A k \in Keys : Failed(k)' = Failed(k)
    BY <1>3 DEF Failed
  <2> QED
    BY <2>1, <2>2, TryingSame
<1>7. OrderInv'
  BY <1>3 DEF OrderInv
<1> QED
  BY <1>5, <1>6, <1>7 DEF BudgetInv

\* The invariant of the throttle is inductive.
LEMMA StepLogInv == LogInv /\ [ThrottleNext]_(throttleVars) => LogInv'
<1> SUFFICES ASSUME LogInv, [ThrottleNext]_(throttleVars) PROVE LogInv'
  OBVIOUS
<1>1. CASE UNCHANGED throttleVars
  <2>1. UNCHANGED <<failures, trying>>
    BY <1>1 DEF throttleVars
  <2>2. ThrottleTypeOK'
    BY <2>1, LogTypes, LogTypesAfter DEF LogInv
  <2>3. \A k \in Keys : Failed(k)' = Failed(k) /\ Trying(k)' = Trying(k)
    BY <2>1 DEF Failed, Trying
  <2>4. OrderInv'
    BY <2>1 DEF LogInv, OrderInv
  <2> QED
    BY <2>2, <2>3, <2>4 DEF LogInv, BudgetInv
<1> QED
  BY <1>1, ClockStep, TryCheckStep, TryRecordStep, TrySucceedsStep, TickStep DEF ThrottleNext

\* It holds throughout every behaviour.
LEMMA LogInvariant == ThrottleSpec => []LogInv
<1>1. ThrottleInit => LogInv
  BY InitLogInv
<1>2. LogInv /\ [ThrottleNext]_(throttleVars) => LogInv'
  BY StepLogInv
<1> QED
  BY <1>1, <1>2, PTL DEF ThrottleSpec

\* The table of failures keeps its types and its bound.
THEOREM ThrottleTypeCorrect == ThrottleSpec => []ThrottleTypeOK
<1>1. LogInv => ThrottleTypeOK
  BY DEF LogInv
<1> QED
  BY <1>1, LogInvariant, PTL

\* However the requests of a client overlap, no more failures than the budget
\* and one for each other request in flight count at one time (throttle.py 43-75).
THEOREM BudgetsHold == ThrottleSpec => []BudgetHolds
<1>1. LogInv => BudgetHolds
  <2> SUFFICES ASSUME LogInv, NEW k \in DOMAIN failures
               PROVE  Len(failures[k]) <= MAX_FAILURES + Cardinality(Attempts) - 1
    BY DEF BudgetHolds
  <2>1. k \in Keys /\ Len(failures[k]) \in Nat
    BY LogTypes, LenProperties DEF LogInv
  <2> QED
    BY <2>1, TryingCounts, ThrottleAssumption DEF LogInv, BudgetInv, Failed
<1> QED
  BY <1>1, LogInvariant, PTL

\* A full table makes room by forgetting those who failed longest ago, but for
\* the time requests wait for the lock (throttle.py 65-67, 92-103).
THEOREM OldestAreForgottenFirst ==
    ThrottleSpec => ForgetsOldestFirst
<1>1. LogInv /\ [ThrottleNext]_(throttleVars) =>
        [\A r \in Attempts : TryRecord(r) =>
            \A d \in DOMAIN failures \ DOMAIN failures',
               k \in DOMAIN failures \cap DOMAIN failures' :
                \A i \in DOMAIN failures[d] : \E j \in DOMAIN failures[k] :
                    failures[k][j] <= failures[d][i] + DELAY]_(throttleVars)
  <2> SUFFICES ASSUME LogInv, NEW r \in Attempts, TryRecord(r),
                      NEW d \in DOMAIN failures \ DOMAIN failures',
                      NEW k \in DOMAIN failures \cap DOMAIN failures',
                      NEW i \in DOMAIN failures[d]
               PROVE  \E j \in DOMAIN failures[k] : failures[k][j] <= failures[d][i] + DELAY
    OBVIOUS
  <2>1. PICK key \in Keys, age \in 0..DELAY : key = trying[r].key /\ age = trying[r].age
    <3>1. trying[r] \in Trials /\ trying[r].step = "record"
      BY LogTypes DEF TryRecord, LogInv
    <3> QED
      BY <3>1, LogTypes DEF Trials, LogInv
  <2>2. PICK E : Spares(E, key) /\ failures' \in [E \cup {key} -> Seq(Ages)]
    <3>1. \E E : FailsInto(E, key)
      BY <2>1, RecordFacts DEF TryRecord, LogInv
    <3> QED
      BY <3>1 DEF FailsInto
  <2>3. DOMAIN failures' = E \cup {key} /\ d \notin E /\ k \in E
    BY <2>2 DEF Spares
  <2>4. /\ failures[d] \in Seq(Ages) /\ failures[k] \in Seq(Ages) /\ Near(failures[d])
    BY LogTypes DEF LogInv, OrderInv
  <2>5. /\ Len(failures[d]) \in Nat /\ DOMAIN failures[d] = 1..Len(failures[d])
        /\ Len(failures[k]) \in Nat /\ DOMAIN failures[k] = 1..Len(failures[k])
        /\ \A n \in 1..Len(failures[d]) : failures[d][n] \in Nat
        /\ \A n \in 1..Len(failures[k]) : failures[k][n] \in Nat
    BY <2>4, LenProperties, ThrottleAssumption DEF Ages, Oldest
  <2>6. failures[d] # << >>
    BY <2>4, <2>5
  <2>7. failures[k] # << >> /\ Latest(failures, k) <= Latest(failures, d)
    BY <2>2, <2>3, <2>6 DEF Spares
  <2>8. Len(failures[k]) \in 1..Len(failures[k]) /\ Len(failures[d]) \in 1..Len(failures[d])
    BY <2>4, <2>5, <2>6, <2>7
  <2>9. failures[d][Len(failures[d])] <= failures[d][i] + DELAY
    <3>1. CASE i = Len(failures[d])
      BY <2>5, <2>8, <3>1, ThrottleAssumption
    <3>2. CASE i < Len(failures[d])
      BY <2>4, <2>5, <2>8, <3>2 DEF Near
    <3> QED
      BY <2>5, <3>1, <3>2
  <2> QED
    BY <2>5, <2>7, <2>8, <2>9, ThrottleAssumption DEF Latest
<1> QED
  BY <1>1, LogInvariant, PTL DEF ThrottleSpec, ForgetsOldestFirst
=============================================================================

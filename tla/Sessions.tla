------------------------------ MODULE Sessions ------------------------------
(***************************************************************************)
(* Accounts and the ways a request is admitted: by password, by Subsonic   *)
(* token (core/auth.py) and by JWT (api/deps.py, api/web.py). A token      *)
(* needs the plain-text password, which the server keeps twice: encrypted  *)
(* beside the hash in the row, and in memory per user name. Both copies    *)
(* are written by requests that read the row earlier, while the account    *)
(* endpoints and the command line (cli.py, another process) change it.     *)
(*                                                                         *)
(* A hash stands for the one password that matches it and a token for the  *)
(* password it was computed from. Administrators, who call the account     *)
(* endpoints, are not among the accounts modelled; roles are left out.     *)
(***************************************************************************)
EXTENDS Naturals, FiniteSets, Functions, TLC

CONSTANTS Names, Passwords, Callers,
          MaxAccounts   \* bound: accounts ever created

ASSUME SessionsAssumption ==
    /\ "none" \notin Passwords /\ "lost" \notin Passwords
    /\ MaxAccounts \in Nat

VARIABLES users,    \* the rows of users: id -> row
          created,  \* accounts created so far
          cache,    \* _last_plaintext: password per name, None if absent
          jwts,     \* the JWTs issued under the present secret
          req,      \* the request each caller has in flight
          ever      \* history: passwords set for a name by those entitled to

vars == <<users, created, cache, jwts, req, ever>>

None == "none"          \* NULL, or not in the cache
Lost == "lost"          \* encrypted under a secret that was replaced

(* A request: how far it is, the name and password (or token, or new       *)
(* password) it came with, the password to compare with the row or with    *)
(* the token, the id of the row it read or is admitted to, the JWT it will *)
(* be answered with; off is history: the accounts that were disabled or    *)
(* deleted when it began and still are.                                    *)
Idle == [op |-> "idle", step |-> "none", name |-> None, pass |-> None,
         plain |-> None, row |-> 0, jwt |-> {}, off |-> {}]

Ids == 1..MaxAccounts
(* A row; past, cli and overtaken are history: the passwords it has had,   *)
(* whether the latest was set by the command line, and whether a log-in    *)
(* that had read the row, and was about to store the copy, was under way.  *)
Rows == [name : Names, hash : Passwords, enc : Passwords \cup {None, Lost},
         disabled : BOOLEAN, past : SUBSET Passwords, cli : BOOLEAN, overtaken : BOOLEAN]
Tokens == [id : Ids, name : Names]
Requests ==
    [op : {"token", "login", "change", "admitted"},
     step : {"none", "read", "warm", "compare", "fetch", "verify", "seed", "find", "write", "cache"},
     name : Names, pass : Passwords \cup {None}, plain : Passwords \cup {None},
     row : 0..MaxAccounts, jwt : SUBSET Tokens, off : SUBSET Ids]

TypeOK ==
    /\ users \in [DOMAIN users -> Rows] /\ DOMAIN users \subseteq Ids
    /\ created \in 0..MaxAccounts
    /\ cache \in [Names -> Passwords \cup {None}]
    /\ jwts \subseteq Tokens
    /\ ever \in [Names -> SUBSET Passwords]
    /\ req \in [Callers -> Requests \cup {Idle}]

Row(n, p, enc) ==
    [name |-> n, hash |-> p, enc |-> enc, disabled |-> FALSE,
     past |-> {p}, cli |-> FALSE, overtaken |-> FALSE]

(* The seeded administrator, and accounts from before copies were kept,    *)
(* have none.                                                              *)
Init ==
    /\ created \in 0..MaxAccounts
    /\ users \in [1..created -> {Row(n, p, None) : n \in Names, p \in Passwords}]
    /\ \A i, j \in 1..created : users[i].name = users[j].name => i = j
    /\ jwts = {}
    /\ cache = [n \in Names |-> None]
    /\ req = [r \in Callers |-> Idle]
    /\ ever = [n \in Names |-> {users[i].hash : i \in {i \in 1..created : users[i].name = n}}]

IdsOf(n) == {i \in DOMAIN users : users[i].name = n}
Off == {i \in DOMAIN users : users[i].disabled}

-----------------------------------------------------------------------------
(* The rows.                                                               *)

NewId == created + 1                \* AUTOINCREMENT

(* Fails (IntegrityError) when the name is taken.                          *)
create_user(n, p, enc) ==
    /\ IdsOf(n) = {} /\ created < MaxAccounts
    /\ created' = created + 1
    /\ users' = [i \in DOMAIN users \cup {NewId} |->
                    IF i = NewId THEN Row(n, p, enc) ELSE users[i]]
    /\ ever' = [ever EXCEPT ![n] = @ \cup {p}]

delete_user(i) == Restrict(users, DOMAIN users \ {i})

(* Updates by id; none when the row has gone.                              *)
Update(i, row) == IF i \in DOMAIN users THEN [users EXCEPT ![i] = row] ELSE users

Seeding(i) == \E r \in Callers :
    req[r].op = "login" /\ req[r].step = "seed" /\ req[r].row = i
update_user_password(row, i, p, by_cli) ==
    [row EXCEPT !.hash = p, !.past = @ \cup {p}, !.cli = by_cli, !.overtaken = Seeding(i)]
update_encrypted_password(row, p) == [row EXCEPT !.enc = p]

(* What the transaction of a password change leaves behind.                *)
WithPassword_HashOnly(i, p) ==      \* mutant
    Update(i, update_user_password(users[i], i, p, FALSE))
WithPassword(i, p) ==
    Update(i, update_encrypted_password(update_user_password(users[i], i, p, FALSE), p))

set_user_disabled(i, off) ==
    /\ users' = [users EXCEPT ![i].disabled = off]
    \* history: an account enabled meanwhile was not off throughout a request
    /\ req' = IF off THEN req
              ELSE [r \in Callers |-> [req[r] EXCEPT !.off = @ \ {i}]]

-----------------------------------------------------------------------------
(* Account endpoints. The memory cache is left alone by all of them.       *)

CreateUser(n, p) ==
    /\ create_user(n, p, p)
    /\ UNCHANGED <<cache, jwts, req>>

UsersCreate(n, p) ==
    /\ create_user(n, p, p)
    /\ UNCHANGED <<cache, jwts, req>>

DeleteUser(i) ==
    /\ users' = delete_user(i)
    /\ UNCHANGED <<created, cache, jwts, req, ever>>

UsersDelete(i) ==
    /\ users' = delete_user(i)
    /\ UNCHANGED <<created, cache, jwts, req, ever>>

ChangePassword(i, p) ==
    /\ users' = WithPassword(i, p)
    /\ ever' = [ever EXCEPT ![users[i].name] = @ \cup {p}]
    /\ UNCHANGED <<created, cache, jwts, req>>

(* updateUser finds the row by name, within the transaction.               *)
UpdateUser(n, p) ==
    /\ \E i \in IdsOf(n) : users' = WithPassword(i, p)
    /\ ever' = [ever EXCEPT ![n] = @ \cup {p}]
    /\ UNCHANGED <<created, cache, jwts, req>>

(* The web endpoint sets the password or the flag.                         *)
UsersPatch(i) ==
    \/ /\ \E p \in Passwords : /\ users' = WithPassword(i, p)
                               /\ ever' = [ever EXCEPT ![users[i].name] = @ \cup {p}]
       /\ UNCHANGED <<created, cache, jwts, req>>
    \/ /\ \E off \in BOOLEAN : set_user_disabled(i, off)
       /\ UNCHANGED <<created, cache, jwts, ever>>

(* The command line.                                                       *)
cmd_useradd(n, p) ==
    /\ create_user(n, p, None)
    /\ UNCHANGED <<cache, jwts, req>>

cmd_userdel(n) ==
    /\ \E i \in IdsOf(n) : users' = delete_user(i)
    /\ UNCHANGED <<created, cache, jwts, req, ever>>

cmd_passwd(i, p) ==
    /\ users' = Update(i, update_user_password(users[i], i, p, TRUE))
    /\ ever' = [ever EXCEPT ![users[i].name] = @ \cup {p}]
    /\ UNCHANGED <<created, cache, jwts, req>>

_set_disabled(i, off) ==
    /\ set_user_disabled(i, off)
    /\ UNCHANGED <<created, cache, jwts, ever>>

-----------------------------------------------------------------------------
(* Requests.                                                               *)

OffNow == Off \cup ((1..created) \ DOMAIN users)
Begin(r, op, step, n, p, plain, i, jwt) ==
    /\ req[r] = Idle
    /\ req' = [req EXCEPT ![r] =
                  [op |-> op, step |-> step, name |-> n, pass |-> p, plain |-> plain,
                   row |-> i, jwt |-> jwt, off |-> OffNow]]

Goto(r, step) == [req EXCEPT ![r].step = step]
Refuse(r) == req' = [req EXCEPT ![r] = Idle]
Admitted(q, i) ==
    [q EXCEPT !.op = "admitted", !.step = "none", !.plain = None, !.row = i, !.jwt = {}]
Admit(r, i) == req' = [req EXCEPT ![r] = Admitted(req[r], i)]

At(r, op, step) == req[r].op = op /\ req[r].step = step

Matches_Any(row, p) == TRUE         \* mutant: cached before bcrypt has agreed
Matches(row, p) == row.hash = p

MayEnter_AnyRow(i) == TRUE          \* mutant: the flag is not looked at
MayEnter(i) == ~users[i].disabled

(* The rows of the name whose copy can be decrypted.                       *)
Usable(n) == {i \in IdsOf(n) : users[i].enc \in Passwords}

(* _verify_with_token: the password comes from memory or, failing that,    *)
(* from the row; the row is read again once the token matched.             *)
TokenBegin(r, n, p) ==
    /\ Begin(r, "token", IF cache[n] = None THEN "read" ELSE "compare", n, p, cache[n], 0, {})
    /\ UNCHANGED <<users, created, cache, jwts, ever>>

TokenRead(r) ==
    /\ At(r, "token", "read")
    /\ \/ \E i \in Usable(req[r].name) :
             req' = [req EXCEPT ![r] = [@ EXCEPT !.step = "warm", !.plain = users[i].enc]]
       \/ Usable(req[r].name) = {} /\ Refuse(r)
    /\ UNCHANGED <<users, created, cache, jwts, ever>>

TokenWarm(r) ==
    /\ At(r, "token", "warm")
    /\ cache' = [cache EXCEPT ![req[r].name] = req[r].plain]
    /\ req' = Goto(r, "compare")
    /\ UNCHANGED <<users, created, jwts, ever>>

TokenCompare(r) ==
    /\ At(r, "token", "compare")
    /\ IF req[r].plain = req[r].pass THEN req' = Goto(r, "fetch") ELSE Refuse(r)
    /\ UNCHANGED <<users, created, cache, jwts, ever>>

TokenFetch(r) ==
    /\ At(r, "token", "fetch")
    /\ LET open == {i \in IdsOf(req[r].name) : MayEnter(i)} IN
          (\E i \in open : Admit(r, i)) \/ (open = {} /\ Refuse(r))
    /\ UNCHANGED <<users, created, cache, jwts, ever>>

(* A Subsonic request with the password itself.                            *)
PasswordBegin(r, n, p) ==
    /\ Begin(r, "login", "verify", n, p, None, 0, {})
    /\ UNCHANGED <<users, created, cache, jwts, ever>>

(* The web login checks the row it reads; its JWT is for that account.     *)
Login(r, n, p) ==
    /\ \E i \in IdsOf(n) :
          /\ Matches(users[i], p) /\ MayEnter(i)
          /\ Begin(r, "login", "verify", n, p, None, 0,
                   {[id |-> i, name |-> n]})
    /\ UNCHANGED <<users, created, cache, jwts, ever>>

(* The login has answered: to the web with a JWT, whatever came of the     *)
(* second check.                                                           *)
LoginEnds(r, i) ==
    /\ jwts' = jwts \cup req[r].jwt
    /\ IF req[r].jwt = {} /\ i # 0 THEN Admit(r, i) ELSE Refuse(r)

(* _verify_with_password reads the row again, stores the encrypted copy if *)
(* the row it read had none, and then warms the cache.                     *)
VerifyRead(r) ==
    /\ At(r, "login", "verify")
    /\ LET n == req[r].name
           good == {i \in IdsOf(n) : MayEnter(i) /\ Matches(users[i], req[r].pass)}
       IN  \/ \E i \in good :
                 /\ LET next == IF users[i].enc = None THEN "seed" ELSE "warm"
                    IN  req' = [req EXCEPT ![r] = [@ EXCEPT !.step = next, !.row = i]]
                 /\ UNCHANGED jwts
           \/ good = {} /\ LoginEnds(r, 0)
    /\ UNCHANGED <<users, created, cache, ever>>

VerifySeed(r) ==
    /\ At(r, "login", "seed")
    /\ users' = Update(req[r].row, update_encrypted_password(users[req[r].row], req[r].pass))
    /\ req' = Goto(r, "warm")
    /\ UNCHANGED <<created, cache, jwts, ever>>

VerifyWarm(r) ==
    /\ At(r, "login", "warm")
    /\ cache' = [cache EXCEPT ![req[r].name] = req[r].pass]
    /\ LoginEnds(r, req[r].row)
    /\ UNCHANGED <<users, created, ever>>

(* jwt_user: the account is fetched by the id in the JWT.                  *)
Bearer(j) == j \in jwts /\ j.id \in DOMAIN users /\ MayEnter(j.id)

(* change_own_password: the row is fetched again, by the name in the JWT,  *)
(* and its hash compared; then the transaction and the cache.              *)
ChangeBegin(r, j, old, new) ==
    /\ Bearer(j)
    /\ Begin(r, "change", "find", j.name, new, old, 0, {})
    /\ UNCHANGED <<users, created, cache, jwts, ever>>

ChangeFind_Unchecked(r) ==          \* mutant: current_password is not compared
    /\ At(r, "change", "find")
    /\ LET named == IdsOf(req[r].name)
       IN  \/ \E i \in named : req' = [req EXCEPT ![r] = [@ EXCEPT !.step = "write", !.row = i]]
           \/ named = {} /\ Refuse(r)
    /\ UNCHANGED <<users, created, cache, jwts, ever>>
ChangeFind(r) ==
    /\ At(r, "change", "find")
    /\ LET named == {i \in IdsOf(req[r].name) : Matches(users[i], req[r].plain)}
       IN  \/ \E i \in named : req' = [req EXCEPT ![r] = [@ EXCEPT !.step = "write", !.row = i]]
           \/ named = {} /\ Refuse(r)
    /\ UNCHANGED <<users, created, cache, jwts, ever>>

ChangeWrite(r) ==
    /\ At(r, "change", "write")
    /\ users' = WithPassword(req[r].row, req[r].pass)
    /\ ever' = [ever EXCEPT ![req[r].name] = @ \cup {req[r].pass}]
    /\ req' = Goto(r, "cache")
    /\ UNCHANGED <<created, cache, jwts>>

ChangeCache(r) ==
    /\ At(r, "change", "cache")
    /\ cache' = [cache EXCEPT ![req[r].name] = req[r].pass]
    /\ Refuse(r)
    /\ UNCHANGED <<users, created, jwts, ever>>

(* Any other endpoint for JWTs.                                            *)
JwtUser(r, j) ==
    /\ Bearer(j)
    /\ Begin(r, "admitted", "none", users[j.id].name, None, None, j.id, {})
    /\ UNCHANGED <<users, created, cache, jwts, ever>>

Served(r) ==
    /\ req[r].op = "admitted" /\ Refuse(r)
    /\ UNCHANGED <<users, created, cache, jwts, ever>>

-----------------------------------------------------------------------------
(* The server restarts, possibly with another jwt_secret: then no stored   *)
(* copy can be decrypted and no JWT verified.                              *)
Restart ==
    /\ cache' = [n \in Names |-> None]
    /\ req' = [r \in Callers |-> Idle]
    /\ UNCHANGED <<created, ever>>
    /\ \/ UNCHANGED <<users, jwts>>
       \/ /\ jwts' = {}
          /\ users' = [i \in DOMAIN users |->
                         IF users[i].enc = None THEN users[i]
                         ELSE [users[i] EXCEPT !.enc = Lost]]

AccountsNext ==
    \/ \E n \in Names, p \in Passwords :
          CreateUser(n, p) \/ UsersCreate(n, p) \/ UpdateUser(n, p) \/ cmd_useradd(n, p)
    \/ \E n \in Names : cmd_userdel(n)
    \/ \E i \in DOMAIN users :
          \/ DeleteUser(i) \/ UsersDelete(i) \/ UsersPatch(i)
          \/ \E p \in Passwords : ChangePassword(i, p) \/ cmd_passwd(i, p)
          \/ \E off \in BOOLEAN : _set_disabled(i, off)

RequestsNext ==
    \E r \in Callers :
        \/ \E n \in Names, p \in Passwords :
              TokenBegin(r, n, p) \/ PasswordBegin(r, n, p) \/ Login(r, n, p)
        \/ TokenRead(r) \/ TokenWarm(r) \/ TokenCompare(r) \/ TokenFetch(r)
        \/ VerifyRead(r) \/ VerifySeed(r) \/ VerifyWarm(r)
        \/ \E j \in jwts : JwtUser(r, j) \/ \E old, new \in Passwords : ChangeBegin(r, j, old, new)
        \/ ChangeFind(r) \/ ChangeWrite(r) \/ ChangeCache(r) \/ Served(r)

Next == AccountsNext \/ RequestsNext \/ Restart

Spec == Init /\ [][Next]_vars

-----------------------------------------------------------------------------
(* The two forms of a password agree wherever a copy is kept: a change     *)
(* writes both in one transaction, and a log-in that verified an older     *)
(* password gets to overwrite the copy only if the change fell between its *)
(* reading the row and its storing the copy; a copy is missing, after any  *)
(* other change than the command line's, only if it always was             *)
(* (auth.py 232-240; users.py 268-270, 177-199; web.py 181-187, 788-794).  *)
EncFollowsHash ==
    \A i \in DOMAIN users : ~users[i].cli /\ ~users[i].overtaken =>
        \/ users[i].enc \in {users[i].hash, Lost}
        \/ users[i].enc = None /\ users[i].past = {users[i].hash}

(* What the comment in _verify_with_password says: once the copy is set it *)
(* never goes stale, the command line aside (auth.py 234-236).             *)
EncNeverStale ==
    \A i \in DOMAIN users : ~users[i].cli =>
        users[i].enc \in {users[i].hash, None, Lost}

(* Memory holds, and a request gets in with, only a password that someone  *)
(* entitled to set it once set for that name: a failed attempt leaves no   *)
(* trace another request could match (auth.py 224-244, 258-278).           *)
KnownPasswordsOnly ==
    /\ TypeOK
    /\ \A n \in Names : cache[n] \in ever[n] \cup {None}
    /\ \A r \in Callers : req[r].op = "admitted" =>
          req[r].pass \in ever[req[r].name] \cup {None}

(* Who changes a password through a JWT knew it: the row to be written has *)
(* had the password given as the current one, although the JWT is looked   *)
(* up by id and the row by name, and the account may be deleted, and its   *)
(* name given to another one, between the two and again before the write   *)
(* (deps.py 77-92; web.py 165-187).                                        *)
ChangesKnowThePassword ==
    \A r \in Callers :
        req[r].op = "change" /\ req[r].step = "write" /\ req[r].row \in DOMAIN users =>
            /\ users[req[r].row].name = req[r].name
            /\ req[r].plain \in users[req[r].row].past

(* Who was disabled or deleted before a request began, and still is when   *)
(* it is admitted, is not let in, by a cached password no more than by an  *)
(* old JWT (auth.py 280-285; deps.py 77-92).                               *)
AdmittedWereEnabled ==
    \A r \in Callers : req[r].op = "admitted" => req[r].row \notin req[r].off
=============================================================================

------------------------------- MODULE Settings -------------------------------
(***************************************************************************)
(* The secret settings: encrypted in the table settings under a key drawn  *)
(* from the process's master key and a salt the first use makes, checked   *)
(* at every start by a canary row; written by admins, each write whole and *)
(* with its audit record; and tried by connection tests, whose result is   *)
(* kept for a while.                                                       *)
(***************************************************************************)
EXTENDS Naturals, FiniteSets, FiniteSetsExt

CONSTANTS
    Secrets,        \* SECRET_FIELDS, all of one service
    MasterKeys,     \* the values MEDIAMAN_SECRET_KEY has had
    Writers,        \* requests that write settings
    Testers,        \* requests that test the service
    MaxWrites,      \* bound on the writes
    MaxBoots        \* bound on the starts of the process

ASSUME SettingsAssumption ==
    /\ "none" \notin MasterKeys
    /\ MaxWrites \in Nat /\ MaxBoots \in Nat

VARIABLES
    salt,       \* row aes_kdf_salt: 0 or the salt
    salts,      \* how many salts have been drawn
    canary,     \* row aes_kdf_canary
    stored,     \* the rows of the secrets
    key,        \* the running process's master key, or "none"
    verdict,    \* app.state.canary_ok, and why not
    saltCache,
    writing,    \* what each writer is doing
    tx,         \* the write transaction: {} or {the writer that holds it}
    pending,    \* what the transaction has written: rows and salt
    testing, testCache,     \* the rows each test has read, and the result that is kept
    writes, boots,  \* the bounded numbers
    audited,    \* audit_log: the writes on record
    madeSalt,   \* ghost: writes in the course of which the salt was made
    torn        \* ghost: one of those failed later

rows        == <<salt, canary, stored>>
process     == <<key, verdict, saltCache>>
writeVars   == <<writing, tx, pending, writes, audited, madeSalt, torn>>
testVars    == <<testing, testCache>>
settingVars == <<rows, salts, process, writeVars, testVars, boots>>

NoRow    == [key |-> "none"]
Cipher(k, s, n, known) == [key |-> k, salt |-> s, by |-> n, unfit |-> known]
NoWrite  == [step |-> "idle", no |-> 0, body |-> [k \in Secrets |-> "keep"]]
Bodies   == [Secrets -> {"keep", "clear", "new"}]

SettingsTypeOK ==
    /\ salt \in 0..salts /\ saltCache \in 0..salts /\ key \in MasterKeys \cup {"none"}
    /\ verdict \in {"unset", "ok", "refused", "raised"}
    /\ tx \in SUBSET Writers /\ Cardinality(tx) <= 1
    /\ writes \in 0..MaxWrites /\ boots \in 0..MaxBoots /\ audited \subseteq 1..writes
    /\ \A k \in Secrets : stored[k] # NoRow => stored[k].key \in MasterKeys

SettingsInit ==
    /\ salt = 0 /\ salts = 0 /\ canary = NoRow /\ stored = [k \in Secrets |-> NoRow]
    /\ key = "none" /\ verdict = "unset" /\ saltCache = 0
    /\ writing = [w \in Writers |-> NoWrite] /\ tx = {}
    /\ pending = [rows |-> [k \in Secrets |-> NoRow], salt |-> 0]
    /\ testing = [t \in Testers |-> {}] /\ testCache = {}
    /\ writes = 0 /\ boots = 0 /\ audited = {} /\ madeSalt = {} /\ torn = FALSE

Up == key # "none"
Step(w, step) == writing[w].step = step
GoOn(w, step) == writing' = [writing EXCEPT ![w].step = step]
Asked(w) == {k \in Secrets : writing[w].body[k] # "keep"}

-----------------------------------------------------------------------------
(* Starting and stopping.                                                  *)

\* decrypt_value: AES-GCM refuses whatever was not made with this key.
Opens(c, k, s) == c # NoRow /\ c.key = k /\ c.salt = s

Written  == {k \in Secrets : stored[k] # NoRow}
Readable == \A k \in Written : Opens(stored[k], key, salt)

\* _salt_cache_put, or _salt_cache_pop for 0.
CacheSalt(s) == saltCache' = s

\* A first start makes the canary, but not where there are secrets already.
CanaryValid(k, s) == IF canary = NoRow THEN Written = {} ELSE Opens(canary, k, s)

PassCanary(k, s) ==
    /\ verdict' = "ok" /\ CacheSalt(s)
    /\ canary' = IF canary = NoRow THEN Cipher(k, s, 0, FALSE) ELSE canary

FailCanary == verdict' = "refused" /\ CacheSalt(0) /\ UNCHANGED canary

\* bootstrap_crypto
Boot(k) ==
    /\ ~Up /\ boots < MaxBoots /\ boots' = boots + 1 /\ key' = k
    /\ LET drawn == salt = 0 /\ ~(canary = NoRow /\ Written # {})
           use   == IF drawn THEN salts + 1 ELSE salt
       IN  \/ verdict' = "raised" /\ CacheSalt(0) /\ UNCHANGED <<rows, salts>>
           \/ /\ salt' = use /\ salts' = IF drawn THEN salts + 1 ELSE salts
              /\ IF CanaryValid(k, use) THEN PassCanary(k, use) ELSE FailCanary
              /\ UNCHANGED stored
    /\ UNCHANGED <<writeVars, testVars>>

\* The process ends, and with it the open transaction.
Stop ==
    /\ Up /\ key' = "none" /\ verdict' = "unset" /\ CacheSalt(0)
    /\ torn' = (torn \/ \E w \in Writers : writing[w].no \in madeSalt)
    /\ writing' = [w \in Writers |-> NoWrite] /\ tx' = {}
    /\ testing' = [t \in Testers |-> {}] /\ testCache' = {}
    /\ UNCHANGED <<rows, salts, pending, writes, audited, madeSalt, boots>>

-----------------------------------------------------------------------------
(* Writing.                                                                *)

\* api_update_settings; write_settings with BEGIN IMMEDIATE.
AskWrite(w) ==
    /\ Up /\ Step(w, "idle") /\ writes < MaxWrites /\ writes' = writes + 1
    /\ \E body \in Bodies :
         writing' = [writing EXCEPT ![w] = [step |-> "rows", no |-> writes + 1, body |-> body]]
    /\ UNCHANGED <<rows, salts, process, tx, pending, audited, madeSalt, torn, testVars, boots>>

\* Also what the next statement does after a commit in the middle.
Begin(w) ==
    /\ Step(w, "rows") /\ tx = {}
    /\ tx' = {w} /\ pending' = [rows |-> stored, salt |-> salt]
    /\ UNCHANGED <<rows, salts, process, writing, writes, audited, madeSalt, torn, testVars, boots>>

New(w) == {k \in Asked(w) : writing[w].body[k] = "new"}

\* Mutated form: the salt is left to the transaction of the write it is made for.
CommitsSaltAtEnd(w) == FALSE

CommitsSalt(w) == TRUE

\* _load_or_create_salt, where there is none: the salt is inserted and committed, and with
\* it the rows the write has done before.
MakeSalt(w) ==
    /\ tx = {w} /\ New(w) # {} /\ saltCache = 0 /\ pending.salt = 0
    /\ salts' = salts + 1 /\ CacheSalt(salts + 1)
    /\ \E done \in SUBSET Asked(w) :
         LET made == [pending EXCEPT !.rows = [k \in Secrets |->
                         IF k \in done /\ writing[w].body[k] = "clear" THEN NoRow ELSE @[k]],
                                     !.salt = salts + 1]
         IN  IF CommitsSalt(w)
             THEN salt' = made.salt /\ stored' = made.rows /\ tx' = {} /\ UNCHANGED pending
             ELSE pending' = made /\ UNCHANGED <<salt, stored, tx>>
    /\ madeSalt' = madeSalt \cup {writing[w].no}
    /\ UNCHANGED <<canary, key, verdict, writing, writes, audited, torn, testVars, boots>>

SaltInUse == IF saltCache # 0 THEN saltCache ELSE pending.salt

\* The rows: encrypted under the salt at hand, or deleted.
WriteRows(w) ==
    /\ tx = {w} /\ Step(w, "rows") /\ (New(w) # {} => SaltInUse # 0)
    /\ CacheSalt(IF New(w) # {} THEN SaltInUse ELSE saltCache)
    /\ pending' = [pending EXCEPT !.rows = [k \in Secrets |->
           CASE writing[w].body[k] = "keep"  -> @[k]
             [] writing[w].body[k] = "clear" -> NoRow
             [] writing[w].body[k] = "new"   ->
                  Cipher(key, SaltInUse, writing[w].no, verdict # "ok" /\ canary # NoRow)]]
    /\ GoOn(w, "audit")
    /\ UNCHANGED <<rows, salts, key, verdict, tx, writes, audited, madeSalt, torn, testVars, boots>>

\* security_event_or_raise and the commit.
CommitWrite(w) ==
    /\ Step(w, "audit")
    /\ stored' = pending.rows /\ salt' = pending.salt /\ tx' = {}
    /\ audited' = audited \cup {writing[w].no}
    /\ GoOn(w, "saved")
    /\ UNCHANGED <<canary, salts, process, pending, writes, madeSalt, torn, testVars, boots>>

\* Any statement may raise; the transaction rolls back and nothing is invalidated.
FailWrite(w) ==
    /\ \/ tx = {w}
       \/ Step(w, "rows") /\ tx # {}        \* the database stays locked for too long
    /\ tx' = tx \ {w} /\ writing' = [writing EXCEPT ![w] = NoWrite]
    /\ torn' = (torn \/ writing[w].no \in madeSalt)
    /\ UNCHANGED <<rows, salts, process, pending, writes, audited, madeSalt, testVars, boots>>

DropResult == testCache' = {}

\* invalidate_test_cache_for_keys
Invalidate(w) ==
    /\ Step(w, "saved")
    /\ IF Asked(w) = {} THEN UNCHANGED testCache ELSE DropResult
    /\ writing' = [writing EXCEPT ![w] = NoWrite]
    /\ UNCHANGED <<rows, salts, process, tx, pending, writes, audited, madeSalt, torn, testing, boots>>

-----------------------------------------------------------------------------
(* Testing.                                                                *)

\* api_test_service: a result that is kept is given again; a secret that cannot be read
\* ends the test without one.
StartTest(t) ==
    /\ Up /\ testing[t] = {} /\ testCache = {} /\ Readable
    /\ testing' = [testing EXCEPT ![t] = {stored}]
    /\ UNCHANGED <<rows, salts, process, writeVars, testCache, boots>>

\* What a tester says is about the rows it was given.
Result(seen) == [seen |-> seen, late |-> seen # stored]

KeepResult(t) == testCache' = {Result(seen) : seen \in testing[t]}

\* The tester answers or runs out of time.  Where it raises, nothing is kept.
EndTest(t) ==
    /\ testing[t] # {}
    /\ testing' = [testing EXCEPT ![t] = {}]
    /\ \/ KeepResult(t)
       \/ UNCHANGED testCache
    /\ UNCHANGED <<rows, salts, process, writeVars, boots>>

\* cache_get after TEST_CACHE_TTL_SECONDS
Expire ==
    /\ testCache # {} /\ DropResult
    /\ UNCHANGED <<rows, salts, process, writeVars, testing, boots>>

SettingsNext ==
    \/ \E k \in MasterKeys : Boot(k)
    \/ Stop \/ Expire
    \/ \E w \in Writers : \/ AskWrite(w) \/ Begin(w) \/ MakeSalt(w) \/ WriteRows(w)
                          \/ CommitWrite(w) \/ FailWrite(w) \/ Invalidate(w)
    \/ \E t \in Testers : StartTest(t) \/ EndTest(t)

SettingsSpec == SettingsInit /\ [][SettingsNext]_settingVars

-----------------------------------------------------------------------------
(* Properties. *)

\* Whatever is encrypted is encrypted under the salt on record, so that a restart, which
\* empties the cache, still reads it.
SaltOutlivesCache ==
    /\ \A k \in Written : stored[k].salt = salt
    /\ canary # NoRow => canary.salt = salt
    /\ saltCache # 0 /\ tx = {} => saltCache = salt

\* A process that has passed the canary reads every secret, but for those written under a
\* key that did not fit the canary there was.
CanaryMeansReadable ==
    verdict = "ok" => \A k \in Written : Opens(stored[k], key, salt) \/ stored[k].unfit

\* A secret stays only from a write that is on record: a write that fails leaves nothing,
\* unless it was the one that made the salt.
WritesAreWhole == \A k \in Written : stored[k].by \in audited \cup madeSalt

\* A kept test result is about the secrets in force, unless they changed while the test ran.
ResultsFit ==
    ~torn => \A result \in testCache :
        \/ result.late \/ result.seen = stored
        \/ \E w \in Writers : Step(w, "saved") \/ writing[w].no \in madeSalt

SettingsKept ==
    SettingsTypeOK /\ SaltOutlivesCache /\ CanaryMeansReadable /\ WritesAreWhole /\ ResultsFit
=============================================================================

# A TLA+ model of mcptoolkit

mcptoolkit is a C++ library for MCP servers: a JSON-RPC loop over standard
input and output (`MCPAdapter`) that authenticates, authorizes and dispatches
requests to the tools of a subclass, and around it a set of classes for
sessions, queues, rate limits, time limits, validation and sanitizing. This
directory holds a model of all of these parts, the TLC runs that check it and
proofs, checked by TLAPS, of its main properties. Paths below are
relative to `src/mcptoolkit`.

## 1. The system

| Component | State | Operations that change it | Used by |
|---|---|---|---|
| `AuthenticationHandler` | config, configured, token secret, revoked tokens, issue times, failure counters; one mutex | configure, register_token, revoke_token, set_token_secret, record_failure, reset_failures | `MCPAdapter::dispatch` |
| `MCPAdapter` | two flags, the line in progress, the output; owns a handler, a policy and a validator | run, dispatch and its handlers, configure_auth, rbac | the application (subclass) |
| `RoleBasedAccessControl` | policy, resources; one mutex | add_permission, register_resource, update_resource_owner | `MCPAdapter::dispatch` (role check only), tools |
| `MCPMessage`, `JsonParser`, extraction helpers | a position in the text | parse | `MCPAdapter` |
| `InputValidationHandler` | rules per tool | register_tool_rules | `MCPAdapter::handle_tools_call`, tools |
| `RequestQueue` | queue, maximum size; mutex and condition variable | enqueue, dequeue, set_max_size, clear | application threads |
| `SessionManager` | config, table of sessions; one mutex | configure, create_anonymous, login, validate, logout, purge_expired | application (not called by dispatch) |
| `RateLimiter` | a token bucket per client; one mutex | configure, allow_request, set_rate, set_burst, reset_client | application |
| `ResourceMonitor` | counters per tool; one mutex | record_*, reset_* | application |
| `TimeoutManager`, `ToolExecutionGuard` | next id, default duration; a deadline read from the clock twice | start_timeout, set_default_timeout; construction | application |
| `PathValidator`, `ResponseSanitizer`, `JsonBuilder` | a config; none; the text being built | configure; none; add_*, start_*, close_* | tools, `MCPAdapter` |
| `security_logging` | none | none | `ToolExecutionGuard` |

Calls go one way: `run` reads a line, `MCPMessage::parse` describes it,
`dispatch` asks the handler (`validate_request`, then `decode_token`), then the
policy (`check_permission`), then runs a handler that writes one line of reply.
Three functions on this way are the subclass's: `extract_auth_token`, before the
handler is asked, `list_tools` and `call_tool`; each may throw or never return, and
`run` catches nothing. The handler and the policy are handed
out by reference (`auth_handler()`, `rbac()`), so other threads and tools change
them while requests are in dispatch: that shared state is the concurrency of
the server. `RequestQueue` is the one class that threads block on.

Behaviours that are hard to test, and what would make each component correct:

* **AuthenticationHandler.** Mutators hold the mutex, readers often do not: a
  call sees a mixture of configurations, and `decode_token` tests the secret twice
  before it reads its length and its bytes. Correct: a token dead when the call began is refused; an identity rests
  on a signature for just that identity; lockouts last; calls end.
* **MCPAdapter.** A dozen exits, each of which owes exactly one reply or none;
  two calls to the handler per request with operators in between; flags read
  three times and set at any time; callbacks that may throw. Correct: it is a JSON-RPC server, and
  what reaches a tool is authentic, not revoked and permitted.
* **RequestQueue.** Notification, timeout and spurious wakeup race, with `clear`
  and `set_max_size` in between. Correct: no lost wakeup, first in first out,
  every call returns, the front item does not wait for a timeout.
* **SessionManager.** Expired sessions stay in the table; validating refreshes, by
  a second reading of the clock; login takes an id from the client. Correct: login makes the old id useless,
  a dead session stays dead, an id never changes hands.
* **RoleBasedAccessControl.** Two ways to ask, one of them with a copy that ages
  while resources and permissions change; the rule is written out for each.
  Correct: an answer on a copy was true at some moment since it was made, the
  two rules agree, a higher role may never do less.
* **RateLimiter.** Buckets are made, refilled and changed while the clock moves.
  Correct: no window of time grants more than burst and rate, and who waits is
  served.
* **TimeoutManager, ToolExecutionGuard.** The guard reads the clock twice when it
  is made; the two classes put the boundary in different places. Correct: what a
  tool is told of its remaining time is kept, and the verdicts agree otherwise.
* **ResourceMonitor.** Look up, make, change: correct if no record is lost.
* **JsonParser, JsonBuilder, extraction.** Three views of one text, written apart.
  Correct: what is written is read, what is cut off is refused, no search leaves
  its span or misses what comes first.
* **InputValidationHandler, PathValidator, ResponseSanitizer.** Several tests or
  changes in a row, each of which could undo what another relies on. Correct: the
  result has what every single step promises.

`PROJECT.json` lists the hazards one by one with their lines and the
properties that watch them.

## 2. Modules

| Module | Models | Notes |
|---|---|---|
| `AuthenticationHandler` | `src/authentication_handler.cpp` | one step to take the mutex, one to apply and release; the reading calls step by step |
| `JsonRpcServer` | (abstract) | what the client of any such server is promised |
| `RbacPolicy` | role check of `src/rbac.cpp` | operators on a policy, no state of its own |
| `RoleBasedAccessControl` | the rest of `src/rbac.cpp` | extends `RbacPolicy` by resources and the callers' copies |
| `RateLimiter` | `src/rate_limiter.cpp` | |
| `MCPAdapter` | `src/mcp_adapter.cpp` | composes the handler, the policy and the loop; refines `JsonRpcServer` |
| `RequestQueue` | `src/request_queue.cpp` | |
| `SessionManager` | `src/session_manager.cpp` | |
| `JsonBytes` | (shared) | texts as sequences of bytes, escapes |
| `JsonParser` | `src/json/json_parser.cpp`, `MCPMessage::parse` | functions of a text and a position |
| `ParamsExtraction` | `extract_string`, `extract_value_span`, `extract_auth_token` | functions of a text and a span |
| `JsonBuilder` | `src/json/json_builder.cpp` | a text that grows call by call |
| `JsonMessages` | (composition) | the writer's text given to the reader and the searches |
| `InputValidation` | `src/input_validation.cpp` | |
| `PathValidator` | `src/path_validator.cpp` | |
| `ResponseSanitizer` | `src/response_sanitizer.cpp` | |
| `TimeoutManager` | `src/timeout_manager.cpp` | |
| `ToolExecutionGuard` | `src/tool_execution_guard.cpp` | extends `TimeoutManager`: one clock |
| `ResourceMonitor` | `src/resource_monitor.cpp` | |
| `Throttle` | (composition) | `RateLimiter` and `RequestQueue`; a behaviour exercises one of them |
| `ToolCallParts` | (composition) | `RoleBasedAccessControl` and the five modules above; a behaviour exercises one of them |
| `*_proofs` | | theorems and proofs of the module they are named after and of those it extends |
| `MC*` | | values of the constants for TLC |

### AuthenticationHandler

The variables are the members of the class. `control` is the mutex together
with what its holder is about to do; `Begin...` actions acquire it, `End...`
actions carry out the assignment and release it. Every mutator is one critical
section, so nothing else is observable of it, except to the unlocked reads. Those
(`configured_`, `config_`, `token_secret_`, and `token_issue_times_` from
`decode_token`) are `Visible...` sets: the old value, plus the new one
while it is being written; for the bytes of the string also a torn value, for
the map also any answer, and `RaceFault` for the case that the process dies of
reading a map or string under change. `decode_token` reads the secret in three
steps: its own test (`DecodeBegin`), the test in `compute_token_signature`
(`DecodeVerify`), and length and bytes for the HMAC (`DecodeHmac`), which takes any
key that was to be seen since that test (`seen`): the empty one, too. The clock is `now`; `MaxTime` bounds it.

A string is a record of what the code can distinguish: prefix or not, the part
up to the first dot, for whom and under which key the rest was signed (`NoSecret`:
under the empty key, which anybody has; `NoSignature`: there is no rest), its
length, a NUL. `ExtractBearer` and `UserPart` then do what `substr` and `find`
do to it: `decode_token` takes the whole text, so the user part of
`Bearer u.s` is `Bearer u`, here `<<TRUE, u>>`. The signature is symbolic: it
verifies exactly for the user part and key it was made for.

`call` is the reader, which in this program is the one thread in `run()`. Two of
its fields are history, used in properties only: `dead` (the token was dead
when the call began and nobody has renewed or reconfigured since) and `keys`
(the secrets in force during the call).

### MCPAdapter

`stage` is the position of the loop: the calls of the handler are stages of
their own (`validate`, `decode`, `identify`) during which operators act. A line
is what the loop can tell of it. All exits of `dispatch` and of its handlers go
through `Answer`, `Reply` or `Finish`. The functions of the subclass are stages
too (`extract`, `list`, `tool`): each returns, throws (`CallbackThrows`) or never
ends. `configure_auth` and `rbac()` are public, so `EnableAuth` and `EnableRbac`
happen at any time, also between two of the three reads of `_auth_enabled`.
`line_revoked` is history, and so is `guards`: the protections that were on when
the line was read, which is what the properties can hold the code to.

`JsonRpc` instantiates `JsonRpcServer` with the reply that is owed (`Due`), the
ids of the replies written, whether the process serves, and whether the request
is lent to something that may end the process (`Lent`): a function of the
subclass, or a read of what an operator is changing. Only then may the abstract
server fail.

### RequestQueue

The steps are the stretches between taking and releasing the mutex. `wait_for`
with a predicate is a loop: test, sleep, on waking test again, and when the time
is over test once more. `pc` says where each consumer is; `notify_one` picks any
sleeper. A request is the number of its acceptance. Spurious wakeups and
timeouts happen at any time. A refused `enqueue` changes nothing and is no step.

### SessionManager

Each operation is under the mutex. Two read the clock more than once and are
modelled in steps: `validate` tests the session at one reading (`Validate`) and
sets its idle timer at a later one (`Refresh`), and `purge_expired` asks anew for
each session (`PurgeExpired`, `PurgeNext`). `accepting` and `unpurged` say how far they
have come, and that the mutex is held. `GeneratedIds` models the random
source: an id that has not been given out, or, if `RandomnessMayFail`, the id of
zero bytes that the code falls back to. `login` receives any id, known to the
manager or not. `issued` and `last_login` are history.

### RoleBasedAccessControl

Every operation is one step under the mutex. The decisions change nothing and
are operators, one for each copy of the rule in the code. `held` is the copy
that `get_resource` gave a caller, which then asks `can_access_resource` about it
(`Ask`); in between, permissions are added, resources registered over and owners
changed. The history in `held` is what `can_access_resource_by_id` would have said
since. One caller is enough: callers do not see each other. `get_resource` of an
unknown id returns a resource without owner, which the rule grants to an
administrator for actions with "any" in their name (and to a user with an
empty id): the decision by id refuses there, so `GrantWasTrue` speaks of copies of
registered resources only.

### RateLimiter

Operations are atomic, but `allow_request` reads the clock, and the constructor
of a new bucket reads it again: `gap` is the time that passes between. A new
bucket is thereby charged for up to `gap`, and may begin in debt. Tokens are
counted in thousandths, so that a natural rate per second is a natural number
of them per millisecond; `TicksPerMs` gives the clock a finer resolution than the
milliseconds that `duration_cast` keeps. `view` is history: a window of
observation, begun anywhere (`Observe`) and anew when a client's limits change.

### JsonBytes, JsonParser, JsonBuilder, ParamsExtraction, JsonMessages

A text is a sequence of bytes. What the code compares, writes or skips in one go
is one element: a name, a literal, the code of a `\u` escape. `JsonParser` has one
operator for each scan of the class; a failed scan returns `Fail`. `Members`,
`ReadMember`, `ErrorMembers` and `ReadErrorMember` are the two loops of `parse` and
`parse_error_object`; a message they refuse keeps what was read of it, and one
that is too long has the code of a parse error only. `ParamsExtraction` is the adapter's own search, with the
end of the span as the code tests it, and without where it does not (`:482`).

`JsonBuilder` has one action per operation. The caller keeps to the grammar, and
`ledger` is history: what was written, in which member, and from where to where.
`JsonMessages` compares: `MessageRoundTrip` states which messages are accepted,
without using the reader to say so, and that the reader finds what the ledger
has. `Readable` goes by the text that was written, whichever call wrote it: a
double `1` is an int to the reader, and a raw `"x"` a string. `Depth` tells
nesting from the text: `OpenAt` keeps, byte by byte, the brackets that stand open
and whether the byte is in a string. Of an error that is given raw the ledger
does not know the members; `ErrorIsKnown` leaves such messages out of
`MessageRoundTrip` (the adapter never writes one), the other properties have
them. Three assumptions tell what the caller's part is: keys, which the builder
writes as they are, are neither a quote nor a backslash (all callers give
literals, but for the names of tool parameters, which are the application's:
`mcp_adapter.cpp:219`); what "%.15g" makes of a double is a number or one of `nan`,
`inf` and their negatives (`DoublesAssumption`); and a raw value is one JSON value
(`RawAssumption`): it is `null` or what another builder built.

`MCPAdapter` does not extend these modules: its lines carry what `parse` and the
searches find, and `JsonMessages` shows that this is what was sent.

### InputValidation, PathValidator, ResponseSanitizer

The operations are operators on a text; registered rules and the configuration
are variables. What a regular expression matches is a parameter. A place in the
file system is a sequence of names, `Links` are symbolic links, and `Canonical`
is `weakly_canonical`; `PathString` and `BasePrefix` go back to text, because that
is what the code compares. `ResponseSanitizer` works byte by byte, but the words
of its patterns are split only where an escape could join them to what precedes.

The properties compare with something that the code does not have: the way a
POSIX shell reads words (`ShellWords`), places instead of texts
(`SafeMeansInside`), the meaning of a JSON string (`Meaning`). What an accepted
argument must be free of, and what a redacted text must, is written out in
the properties (`AcceptedCallsFollowRules`, `ReleasedTextIsClean`) and not asked of
the code's own tests.

### TimeoutManager, ToolExecutionGuard, ResourceMonitor

The clock counts ticks, `TicksPerMs` of them a millisecond, which `Elapsed` cuts
off as `duration_cast` does. The constructor of the guard reads the clock for
`timeout_guard_`, then for `start_time_`; in between it may tick. `remaining_seen`
and `logged` are history: the last answer and the last category.

The metrics are changed in two steps, the search for the entry under the mutex
and the rest, so that a mutex that did not exclude would show. `promised` is
history: what the same calls one after the other would have left.

## 3. Runs

| Run | Question | Result |
|---|---|---|
| `auth` | dead tokens, identities and lockouts under every interleaving with operators; does a call reach its verdict? | holds |
| `adapter_protocol` | does the loop implement `JsonRpcServer`, for every kind of line, two in a row? Is every line dealt with? | holds |
| `adapter_identity` | is what is admitted authentic, unrevoked and permitted, with operators at work and everything configured at any time? | holds |
| `throttle` | how much does a window grant at most, is a client that waits served; lost wakeups, order, the front item without a timeout, the return of every `dequeue` | holds |
| `session` | rotation, death and binding of sessions | holds |
| `json` | does the toolkit read what it writes, whole; refuse it cut off; find the members of the params? | holds |
| `tool_call_parts` | rules, quoting, paths, responses, deadlines and metrics around a tool call; are decisions on a copy ones that the decision by id gave at some moment, do both rules agree and respect roles? | holds |
| `auth_race` | "Caller must hold mutex_" | violated: `decode_token` calls `is_expired` without it |
| `auth_empty_key` | "Invalid: empty token or no secret configured" | violated: the secret emptied between its test and its use makes a key that takes no secret |
| `adapter_documented_token` | is the documented credential accepted? | violated: the prefix stays on for `decode_token` |
| `adapter_late_auth` | the tool's user is "authenticated", "null if auth disabled" | violated: `configure_auth` while the request is in dispatch |
| `rate_steady` | a rate counts "tokens per second" | violated for a client that asks more than once in a millisecond |

The second group states sentences of comments and headers that the code does
not keep. Six more sentences of the repository are contradicted by what a
property of a passing run says of the code; the comment of the property quotes
the sentence, and `PROJECT.json` has a finding for it:

| Sentence | Property that says otherwise | What the code does |
|---|---|---|
| id -1 "is treated as notification" | `RpcPromise` (`adapter_protocol`) | answers it: `Due` owes a reply to every id |
| "in case of Windows-style CRLF" | `RpcPromise` (`adapter_protocol`) | answers a blank line that ends in CRLF with a parse error: `Due` owes one to every line that is not empty |
| "Max int64 ID parsed" | `MessageRoundTrip` (`json`) | refuses a message whose id is beyond an int |
| "Null byte escaped" | `ValuesSurvive` (`json`) | drops it with all behind it: what is read is what was written up to there |
| `<` and `>` have "special meaning in shell" | `ArgumentsAreChecked` (`tool_call_parts`) | accepts them under every rule: a call is accepted exactly if it obeys rules which know them only as `Redirections` that nothing forbids |
| "Also redact Windows paths" | `ResponsesAreClean` (`tool_call_parts`) | releases a text without a slash as it is, but for its length |

Beside the sentences of the second group, `DecodedIdentity` speaks of the keys to be seen during
the call, and `AdmittedIsAuthentic` and `ToolIsPermitted` of lines read with the
protections on. Because of
`adapter_documented_token`, the credential that gets through in the other runs
is the one the code accepts: a signature that covers the prefix. Without a run
of their own, but visible in the model:

* `is_expired` is true of every registered token older than zero when the TTL is
  zero, while the header says "returns false if TTL is 0"; the callers in the
  class test the TTL first.
* `dispatch` neither records failures nor asks `is_locked_out`: the limit
  "Lock out after N consecutive failures" (`authentication_handler.h:14`) is the
  application's to apply.
* When every random source fails, `generate_id` returns the same id each time, and
  `login` the one the client had before: with `RandomnessMayFail = TRUE`,
  `LoginRotates` fails ("never reuse", `session_manager.cpp:45`).
* A message that answers with a null id, as the loop does after a parse error, is
  refused by the toolkit's own reader, as is the least int as an id.
* `JsonBuilder` does not escape keys.
* The searches take the first quoted text that equals the key: a `name` inside
  the arguments, or a string `"name"`, hides a later member. `MembersAreFound`
  states exactly when a member is found.
* The comment at `input_validation.cpp:112` leaves out the space, which the test
  looks for.
* With an empty `base_directory` every path that passes the tests on its text is
  within the base; `allow_symlinks` is read nowhere. The base itself is outside of
  the base unless it is the root. Two encoded dots that are not adjacent are found
  in lower case only (`path_validator.cpp:139`).
* A truncated response is longer than the limit, so that `validate_output` refuses
  it under the same limit; a path that runs into the mark takes half of it along;
  and the letter that ends an escape may complete a pattern in the escaped text,
  though not in what it means.

### Bounds

* `MaxTime`: in `auth` 2, so that a token with the lifetime 1 is young, at the
  boundary and expired; in `session` 3, which also tells the idle limit from the
  absolute one; 1 in `adapter_identity`; 0 in `adapter_protocol`, where expiry is
  one more way of being refused.
* One user and one managed token: the handler treats the entries of its maps
  independently. Two keys where the secret may change between two reads (`auth`).
  The strings are the empty one, a documented token bare, with prefix and signed
  under the empty key, and for the adapter one whose signature covers the prefix,
  and its rest.
* Two configurations that differ in every field. One client, as counters are
  independent, and `MaxFailures` 2 with the limits 1 and 2, so that a counter reaches
  its limit, falls short of one and goes past one.
* `MaxLines` 2 in `adapter_protocol`, where the second line meets what the first
  left behind, and 1 in `adapter_identity`, where operators, flags, policy and
  clock move under it; the locals of `dispatch` do not outlive a line, and the
  proofs of section 4 speak of any number. `adapter_protocol` grants no
  permission (its question is how many replies there are, and "unauthorized" is
  one), `adapter_identity` grants them all in turn.
* Queue: three consumers, four requests, and maximum sizes 0, 1 and 3, so that
  the queue is empty, full, over-full and several consumers sleep at once.
* Sessions: three ids, two users, one agent and none: one session before login,
  one after, one bystander.
* Access control: one resource, one group, one user and the empty id, an
  ordinary action and one with "any", every policy over them. The rule looks at
  one resource and one user at a time.
* Rates: a token every millisecond or every two, bursts 0 to 2, half a
  millisecond per tick, gaps up to two milliseconds (a burst of debt), a clock
  of four: long enough to empty, refill and over-fill a bucket. One client, as
  buckets are independent. `rate_steady` has no gaps.
* JSON: up to four calls, which is a member within a member within `params` and one
  more; nested params are also given as raw values, with brackets of both kinds,
  in strings and deeper than the reader takes. `MaxDepth` 2, `IntMax` 12 and
  `MaxBytes` 62 stand for 64, 2^31 - 1 and 1 MB: values on both sides of each occur.
  Every message is also cut off at every byte.
* Texts of up to five characters for quoting and responses, four for paths, over
  alphabets that hold one character of each kind the code tells apart. With a
  limit of 3 bytes a response is short, exact, and cut within a path, a pattern
  or an escape.
* Paths: a base, a sibling whose name starts like it, the root and no base; a link
  into and one within the base.
* Time: two ticks per millisecond, durations 0 to 2, a clock of 7 ticks: enough for
  a duration, the readings on both sides of it and the millisecond after.
  Metrics: two threads, two tools, three records, resets at any time.
* `throttle` and `tool_call_parts` explore their parts one at a time: they share no state.

### Fairness

`AuthenticationHandler` and `MCPAdapter` are weakly fair in the steps of the
thread that serves and in the release of the mutex: each is straight-line code.
Taking the mutex is another matter: `std::mutex` promises nobody a turn, so
`CallsFinish` and `LineHandled` have the premise `EventuallyQuiet`, that
operators at last leave the handler alone. Nothing is assumed of input, tools,
operators or clock. In the queue, threads that are awake are weakly fair; that
the 30 seconds pass is the premise of `DequeueReturns` only (`TimePasses`), so that
`HeadIsTaken` shows that the item does not need the timeout.

### Symmetry and deadlock

`session` uses symmetry in ids and users: it checks only invariants and action
properties. Deadlock is checked in every run; the ends of a process are explicit
stuttering actions (`Crashed`, `Ended`). `tool_call_parts` is the exception: its
texts stop growing, and its clock and records end at their bounds.

## 4. Proofs

For every value of the constants that satisfies the named assumptions:

* `AuthenticationHandler_proofs`: type correctness, `DeadTokenRefused`,
  `DecodedIdentity`, `LockoutHolds`. The inductive invariant adds to the types
  that a dead token never gets past the lookup (of each of the two calls) and
  is still dead in the tables while the call is before it (`DeadStaysDead`);
  that, from the first test of the secret to the HMAC, `keys` holds every secret a
  read may still meet, the empty one only while the secret is being replaced, and
  that a call past the HMAC has a text whose signature is good for its user part
  under one of them (`SignatureKnown`); and that the counter about to be incremented is
  below its bound (`CounterHasRoom`). The property on verdicts alone is not
  inductive: it says nothing of a call that has not been decided. The steps are
  split into taking the mutex, applying the change, reading and time.
* `MCPAdapter_proofs`: `LoopKeepsRpcPromise`, that the loop implements
  `JsonRpcServer`, by showing that every step is one of nine kinds (`StepKinds`)
  and each kind a step or a stutter of the abstract server, under an invariant
  that ties the stage to the line in progress; and `ToolsArePermitted` and
  `AdmittedAreAuthentic`, with `configure_auth`, `rbac()` and every operation of the
  operators at any moment. Both rest on `GuardsStand`: a protection that was on
  when the line was read stays on, since nothing ever switches one off. The first
  carries the authenticated user and his permission from the role check to the
  tool; a policy only grows. The second follows a credential through the two calls
  (`CredentialInv`): revoked when its line was read, it is still revoked in the
  form the first call looks up, or else, where a new configuration makes that
  call look up another form, in the form presented, which the second call looks
  up; and past `verify` the signature is the identity's. The results about the
  handler alone are carried over to the handler within the loop: `HandlerAssumption`
  states that its constants are what the handler assumes of them,
  `LoopRunsTheHandler` that the loop makes no step of it that is not its own, and
  with these the handler's theorems, cited through an instance of their module,
  give `CallsOfTheLoopAreSound` and the handler's part of `TypeOK` (`TypeCorrect`).
* `Throttle_proofs`, about `RequestQueue`: types, `NoLostWakeup` and
  `EachOnceInOrder`, for any finite set of consumers. The invariant is their conjunction with the types; the work
  is in the number of awake threads when one of them is added or leaves.
* `RoleBasedAccessControl_proofs`: all properties of access control. The invariant says that
  the history holds the answer of this moment, and a refusal if the copy is of a
  closed resource; a refusal is then either for want of a role, which is true
  now, or for the resource, which was true at first. `RulesAgree` and
  `HigherRoleMayMore` need the types only, and one lemma for each rule that names
  its part about the resource (`RuleSplits`, `RuleByIdSplits`).
* `SessionManager_proofs`: types always; `LoginRotates`, `DeadStaysDead` and `BoundForLife`
  when the random source works (`FreshIds`; with
  `RandomnessMayFail` the first fails). Every step is one of a few kinds (`StepKinds`):
  it configures, removes sessions, refreshes the one that `validate` found good,
  creates one, or lets time pass. `LoginRotates` alone is not inductive: `OldIdIsDead` adds that the old id has been given out, hence
  is not generated again.
* `Throttle_proofs`, about `RateLimiter`: types, `WindowBound` and
  `PatientClientIsServed` for every rate, burst and resolution. The invariant is an account (`Account`): the tokens in hand and
  those spent in the window stay within the burst and what the rate yielded
  up to the last refill; a bucket not refilled since the window began granted
  nothing in it; a debt is never more than the charge. `RefillKeepsAccount` is the
  step that needs the rounding to go down.
* `ToolCallParts_proofs`, about five of the six modules that `ToolCallParts` combines:
  * the guard: `RemainingTimeIsKept` and `VerdictsAgree`, for every resolution, set
    of durations and length of time. The invariant orders the two readings of
    the clock, the answer and the log in time; the rest is arithmetic of a
    division that rounds down (`ElapsedReaches`, `GuardsDeadline`).
  * the monitor: `NoRecordIsLost`, for any threads, tools and amounts. The invariant
    adds that one thread at most is between its two steps, that it holds the
    mutex, and that what it found of its entry is still so.
  * `PartsRunTheGuard`, `PartsRunTheMonitor`, `PartsRunTheAccessControl`: the
    combination makes no step of the three that is not theirs, so that the results
    above, and those about access control, hold of it. `ThrottleRunsTheLimiter` and
    `ThrottleRunsTheQueue` say the same of `Throttle`.
  * `ArgumentsAreChecked`, `PathsAreConfined`, `ResponsesAreExact` and
    `ResponsesAreClean` for texts of every length, over every alphabet. The
    state is simple here, and the work is in the functions. A place reached by
    a path is compared with its text component by component; a redacted
    response is described by the stretches that were copied and the marks put
    in; an escaped one is a row of pieces, each of which the reader passes as
    one and none of which completes what the piece before began.
* `JsonMessages_proofs`: `ExtractionStaysInside`, since every scan ends behind where
  it began and within the text; `ValuesSurvive`; and `PartialMessageIsRefused`. The
  invariant has three parts.
  `LedgerIsTrue` says that the text of every string in the ledger stands in the
  buffer between quotes as the row of its escapes, and every later call only
  appends; that the reader's scan and the meaning follow such a row piece by
  piece is then independent of what surrounds it. `NumbersAreTrue` says that the
  digits of every int stand where the ledger has them and are followed by the end
  of the buffer, a comma or a closing bracket: the next call always writes its
  comma, since a digit is none of the characters after which the builder leaves
  it out. The digits the builder writes sum up to the number (`DecimalMeans`) and
  the reader's loop sums up what it is given (`NumberIsRead`), so the two agree
  for every int whose magnitude is at most `IntMax`. `NestingIsTrue` says that behind
  the buffer exactly the brackets of the open containers stand open, outside of
  any string, and that between the first and the last byte something always
  does. It is about the text alone, as `OpenAt` is; that the reader agrees is a
  second row of lemmas, one for each scan (`SkipStringNests` to
  `ErrorMembersNests`): begun outside of a string, it ends outside of one with the
  same brackets open, or fails. The scan for a container counts one kind of
  bracket only; it is right because in such a text no bracket of the other kind
  is ever closed by it (`ContainerStep`). The reader accepts a message only behind
  the brace that closes the first, where nothing is open (`OpenTextIsRefused`):
  in a message cut off there is no such place.
* `JsonLayout_proofs`: `MessageRoundTrip` and `MembersAreFound`, for messages of every
  length, depth and order of calls. The invariant is `LayoutIsTrue`, beside the
  three above. It says that the ledger is a tree in preorder (`Tree`); that the
  text has the head and the value of every member where the ledger says so
  (`Spelling`), a value being enclosed by brackets that stand open nowhere in it;
  and that nothing else is in the text (`Order`): the first member of an object
  begins behind its brace, the next one behind one comma, and where the object is
  left, its brace stands. Each call of the builder keeps it (`ValueLaid`,
  `ContainerLaid`, `CloseLaid`, `EndLaid`), and for a whole message it comes to
  `WrittenOut`. From there on it is about the reader:
  * one value: every scan of the reader and of the searches, begun where a value
    begins, ends where the ledger has its end, or fails for the reason `Readable`
    names (`ContainerEndIs`, `NumberIsScanned`, `IntIsParsed`, `ReadableIsTaken`;
    `ValueIsExtracted` for the searches);
  * one member: behind the name the loop of the parser takes the value into the
    field of that name, and goes on at the next member (`ErrorMemberIsRead`,
    `PlainMemberIsRead`, `NextPlace`);
  * all of them: from member to member the fields hold the last of those read so
    far of each name (`InError`, `FieldsTo`), and validity that all of them were
    readable (`ErrorIsRead`, `MembersAreRead`). An error given raw is the one
    object that is read without its members being known: the reader leaves it,
    if it does, at its closing brace (`EnclosedErrorEnds`), since each scan leads
    from one place between members to another (`Scanned`).

  `MemberIsFound` then follows a search to the first place that looks like the
  name, which by the premise of `MembersAreFound` is the member's.

Recursive functions over texts are proved about without an induction scheme:
`MeasureInduction` and `Recursion` are the two facts about a measure in the natural numbers,
stated for sets instead of operators, and each function is shown to be grounded
on how much of the text is left.

Every invariant and every action property that a passing run checks is the
statement of one of these theorems. Checked by TLC only are the four liveness
properties (`CallsFinish`, `LineHandled`, `HeadIsTaken`, `DequeueReturns`), since
liveness under fairness is beyond the prover. The history variables
occur in no guard, except that ids are generated outside `issued`, which says
what 256 random bits are trusted for.

## 5. Not modelled

* The text of replies, the wording of errors and a failing standard output.
* Failure of the hash functions of the Windows build (the verdict is then
  "undecoded", which operators can also bring about), and repetition among
  256-bit random ids (an `id_bytes` of zero would make all ids equal).
* Parameters beyond 1 MB: the parser refuses such a line first.
* A second thread that validates: it would change nothing that the first reads.
* `security_logging`: it writes lines and keeps nothing; of the guard's log only the
  category is kept. `max_output_size` is passed by the caller.
* The test programs and the entry point of the Windows build.
* Windows paths: drives and backslashes occur as far as the tests on text go; the
  comparison with the base is that of POSIX. Errors of the file system refuse.
* Rounding of floating point (CPU time and tokens are whole numbers), and bytes
  above 127 beyond being ordinary.

## 6. What is left

Every class of the library that keeps state or decides anything is modelled. How
an application chains the limiter, the queue, the monitor and the guard is not in
the repository, hence not here. Nothing that the runs check is without a theorem
but liveness.

# A TLA+ model of cube-signer-sidecar

`cube-signer-sidecar` is a small gRPC server that an avalanchego node uses as its BLS signer. It holds
no key: every signature is made by the CubeSigner service, which the sidecar calls over HTTPS with a
short-lived *session*. The session comes from a token file (`cs token create`). It has to be exchanged
for a new one before it expires, and the new one is written back to the file, so that the sidecar can be
restarted from it. The service *rotates* the session at every exchange: once a new session was issued
the old one is good only for a grace period. Losing a session is therefore final; it takes a person to
create a new token file, and until then the validator cannot sign.

## Inventory

| Component | Source | State | Operations |
|---|---|---|---|
| Background token refresh | `signerserver/signerserver.go` 36-125 | `s.tokenData`, a timer, the call in progress | `New`, `RefreshToken`, `saveTokenData`, the loop of `StartBackgroundTokenRefresh` |
| Token file | `signerserver.go` 36-54, 79-89, `token.go` | the file; `RawData`, the fields the sidecar does not know | in-place write without `O_TRUNC`, `json.Decoder`, `MarshalJSON`, `UnmarshalJSON` |
| gRPC handlers | `signerserver.go` 56-61, 127-255 | `s.publicKey` (a cache); per request its goroutine | `PublicKey`, `Sign`, `SignProofOfPossession`, `addAuthHeaderFn` |
| API client (generated) | `api/client.go`, `api/types.go` | none | building requests, applying editors, parsing responses |
| Process lifecycle | `main/main.go` | which goroutines run, the context, the signal channel | `main`, `runServer`, `handleSystemSignals` |
| Configuration | `config/*.go` | none after the start | flags, environment, file; `Validate` |
| Health check | `api/health_check.go` | none | registers a handler nobody serves |
| Schema filter | `spec/get-schemas.go` | none (a build-time tool) | closure over `$ref` |
| Mocks, end-to-end tests | `mockapi`, `tests` | | |

**How they interact.** `main` builds a client and a `SignerServer` from the token file, starts a
goroutine that waits for a signal and one that refreshes the session, and then serves gRPC. avalanchego
calls the three handlers, each in a goroutine of its own; each makes at most one HTTPS call with the
token it finds in `s.tokenData`. The refresher calls the same service with the same client, replaces
`s.tokenData.NewSessionResponse` under the feet of the handlers, and writes the file. No lock protects
anything. A signal cancels the context, which only the refresher looks at; an expired refresh token
(`log.Fatalf`) or a panic of a handler ends the process.

**What is hard.** The exchange has three places that hold a session (service, memory, file) and no
transaction over them: an answer may be lost after the rotation, the process may die between rotation
and save, a save may fail or stop in the middle, an abandoned request may still arrive. The file is
overwritten in place. Time matters: the refresh starts one second before the expiry, handlers may hold
the token of before, a rotated session lives for the grace period. Handlers read two-word values
(`string`, `[]byte`) that another goroutine writes. The HTTP answers are not always CubeSigner's. The
start, the signals and the end of the process are interleaved.

**What makes each component correct.**
*Refresh*: the service, the memory and the file never disagree in a way the faults do not explain; the
memory only gets newer; it never gets stuck on a dead session; it stops when cancelled; the token in
memory is never expired if the network and the clock keep up; two sidecars on one token file leave it
readable.
*Token file*: a complete save can be read back whatever was in the file before; a damaged file is
refused or read as something that is in it.
*Handlers*: each reply is an error or the answer to its own question, and an answer that is not CubeSigner's
does no more harm than the code's cache lets it; no request is
refused because of a refresh; CubeSigner's own answers bring nothing down, and those with the result give
it, however little they fit the OpenAPI document.
*Process*: it never serves without a refresher; every start ends in serving or exiting; an interrupt
does something.
*Fields of the token file*: nothing of the file is lost, and what was saved is what a restart reads.
*Client*: a request goes where the operation is, with its ids escaped, after all editors have run.
*Configuration*: each setting comes from the first source that gives it.
*Schema filter*: it ends, with everything that is needed and nothing else.

## Modules

| Module | What it is |
|---|---|
| `TokenFile` | The file as a sequence of cells labelled with the session they come from. `Overwrite` is `saveTokenData` (possibly cut short), `Loadable` what `New`'s decoder may yield: one session from an intact document, anything spliced from a damaged one, nothing from a truncated one. |
| `SessionStore` | The abstract specification of the refresher: the service's session is `saved`, `unsaved` or `lost`, and which fault may take it from one to the other. |
| `TokenRefresh` | The core: refresher, process, file, service, clock. Refines `SessionStore`. |
| `TokenRefreshTimely` | `TokenRefresh` with bounded round trips, no kills and no lost answers: the situation the one-second margin is made for. The disk may still fail. |
| `SharedTokenFile` | Two of the processes of `TokenRefresh` on one file and one service, the second of which may fail in `Listen` at any time. |
| `SigningTimely` | `TokenRefreshTimely` composed with one request that takes the token and is checked by CubeSigner later. |
| `RemoteSigner` | The abstract specification: what avalanchego may expect of a remote signer, and what it may not once somebody else has answered in CubeSigner's place. |
| `ApiTypes` | What decoding into the Go types of an answer refuses: a type is the set of the places of a JSON value at which it is particular. |
| `ApiResponses` | The response parsers as operators: which of `JSON200`, `JSON202`, `JSONDefault` an answer sets, and what the handlers make of it (result, error or panic). |
| `SignerHandlers` | The handlers at the grain of memory words, with the refresher's assignment of the token and `PublicKey`'s of the cached key as two stores each; refines `RemoteSigner`. |
| `Sidecar` | The process: start, signals, goroutines, end; the refresher with the places where it may be. |
| `TokenData` | The keys of the token file through `UnmarshalJSON`, refreshes, `MarshalJSON`, saves that fail at the open or in the write, and restarts. |
| `ApiRequest` | The generated client up to the sending of a request: options, URLs, editors. |
| `Config` | Flags, environment and file as viper merges them; `Validate`; the start up to the opening and decoding of the token file. |
| `SchemaFilter` | The build-time tool: its work list over `$ref`, for any document. |
| `MC*` | Values for TLC. |
| `*Proofs` | Theorems (below). `TokenRefreshProofs` also has the lemmas about `TokenFile`; `RefreshInUseProofs` is about `TokenRefreshTimely`, `SigningTimely` and `SharedTokenFile`. |

`TokenRefresh` EXTENDS `TokenFile` and instantiates `SessionStore` with `Custody`, where the service's
current session is: `saved` when the file yields it, `unsaved` when it is in memory or in an answer on the
way there, `lost` otherwise. `SharedTokenFile` EXTENDS `TokenRefresh` for the first process and
instantiates it again for the second, with a memory, a goroutine and a call of its own and the same
`file`, `service`, `stray` and `now`. `TokenRefreshTimely` EXTENDS `TokenRefresh` and adds a history
variable (`sentAt`) and conditions to its actions, so each of its steps is a step of `TokenRefresh`;
`SigningTimely` does the same to `TokenRefreshTimely`. `SignerHandlers` EXTENDS `ApiResponses`, which
EXTENDS `ApiTypes`, and instantiates `RemoteSigner` with what avalanchego sees of a handler (`Seen`).
`Config` instantiates `Sidecar`: its steps are the detail of `Configure` and `New` there. Definitions whose names
have a prefix and an underscore (`Zero_Margin`, `NoGo_StartBackgroundTokenRefresh`, ...) are plausible
bugs; each one makes a property of a run fail when it takes the place of the definition it is named
after, which shows that the property is about the code.

### State and actions of `TokenRefresh` against the code

| Model | Code |
|---|---|
| `tokenData` | `s.tokenData.NewSessionResponse`; one `epoch` stands for all the secrets issued together, `size` for the length of the JSON text |
| `pc = "check"` | head of the loop, `select { case <-ctx.Done() ... default` (94) |
| `pc = "timer"`, `deadline` | the inner `select` (112); `Overdue` is `waitDuration < 0`; the expiries are times of the service, and the machine's clock may be `skew` ahead of it, another value of `Skews` each time it is read |
| `pc = "await"`, `call` | `SignerSessionRefreshWithResponse` (66) in progress |
| `pc = "save"` | between the assignment (75) and the end of `saveTokenData` (88) |
| `Start`, `StartFails` | `New` and the start of the goroutine; `New` failing to open or decode |
| `RefreshGranted`, `RefreshDenied`, `RefreshCallFails` | a 200 with a session; another status; an error of the call or of the parser |
| `RefreshStray` | a 200 with a JSON object that is no session: `json.Unmarshal` asks for no field, so the session becomes blank, and is kept and saved |
| `saveTokenData`, `SaveFails` | a complete save; one that cannot open the file or stops after n cells |
| `RefreshTokenExpired` | `log.Fatalf` (106), which ends the whole process |
| `Crash`, `Interrupt` | the process is killed (in the middle of a write: `SaveFails`, then `Crash`); `handleSystemSignals` cancels the context |
| `AnswerCall`, `AnswerStray` | the service, modelled from how the code uses it: it accepts a session that is current, or the previous one within the grace period, and has not expired; it rotates |
| `ListenFails` (`SharedTokenFile`) | `net.Listen` fails (77) after the goroutine was started (69): `runServer` returns, `main` exits, and a call in progress is left behind |

### State and actions of `SignerHandlers` and `Sidecar`

`call[r].pc` walks a handler through `cache` (the check in line 130), `cached` and `key` (the two loads of the
key it then replies with, 133), `request` and `header` (the two loads of the token
in `addAuthHeaderFn`, 58), `sent`, `answered` (parsing), `store pointer` or `store length` (the second of the
two stores of line 160, whichever that is) and `replied`.
`StorePointer` and `StoreLength` are the two words of the token that line 75 stores; the refresh that
leads there is in `TokenRefresh`. `publicKey` is the slice `s.publicKey` as it is in memory: whether its
pointer is nil, the bytes it points at and the length. Line 160 stores the length first, as the Go compiler
does, or with `WeakMemory` (arm64, which `.goreleaser.yml` builds for) perhaps the pointer. What is stored is
what was decoded, whoever gave it. `Answers` are CubeSigner's:
the result, a 202 for a key that wants a second factor, an error. `StrayAnswers` are everything a
gateway may send instead, texts that decode among them: hex digits of somebody else's (`Forgeries`) and no
digits at all behind the `0x`. A stray answer that a handler takes for a result is *forged* (`IsForged`), and
`RemoteSigner` has a step for that (`Forge`), which is not the signer's doing; and one (`Reorder`) for the moment
at which only the pointer of a key has been stored, which no machine with stores in order gets to. A body is the text of the field that the handler looks at and the places at
which its value is not of the documented kind. CubeSigner's description of a key is odd at the places
`Undocumented`: signerserver.go 176 says that its answers do not fit the document, and has for that
reason a parser of its own, which knows one field (`parseGetKeyInOrgResponse`).

`Sidecar` has one action per step of `main`/`runServer` that can fail or that another goroutine can get
in between of, and a success and a failure action where the code has both. `refresher` is where the refresh
goroutine is: at the head of its `check`, at the `timer`, or `calling`, which is all of `RefreshToken` and
looks at no context.

### State and actions of the sequential parts

`TokenData` takes a JSON object as a function from its keys to values, and the Go structs as functions
from all of theirs. `file` and `t` (`s.tokenData` with `RawData`) are what `TokenFile` and `TokenRefresh`
reduce to an epoch and a length. `Put` is a loop that assigns the keys of one map over another;
`MarshalJSON` is the two of them in the code's order, and it matters: `org_id` is in both structs.
`MarshalJSON` also leaves its result in `RawData`, so it is part of what `RefreshToken` changes, and of what an
`Encode` that fails changes (`EncodeFails`): the document is then in `RawData`, and the file has it, has what it
had, or is `Damaged`. What a damaged file decodes to, if to anything, is any object. When the open fails
(`OpenFails`), `MarshalJSON` is not called and `RawData` stays.

`ApiRequest` takes a path as a sequence of segments. `Resolve` is what `url.URL.Parse` does to a relative
reference, which is why `NewClient` adds a slash. `Call` builds the request, each `ApplyEditor` is one
iteration of `applyEditors`, `Do` sends.

`Config` has one action for each step of `main` with an error return (`Parse`, `BuildViper`,
`BuildConfig`, `Validate`, `Open`, which is the opening and decoding in `New`) and one for its failure. `Find` is viper's lookup; viper, pflag and the
file system are modelled from how the code uses them.

`SchemaFilter` has the outer loop (`Rescan`) and one step of the inner loop (`AssignComponent`), in any
order, as Go's map iteration is; and one action for each way to panic.

## Runs

| Run | Question | Bounds |
|---|---|---|
| `refresh` | Do service, memory and file ever disagree without an explanation? (`TypeOK`, `DiskMirrorsMemory`, `EpochOrder`, `SessionCurrent`, `MemoryOnlyAdvances`) Is a session lost to anything but a fault, or one in the file to anything but a stray answer? (`KeepsSession`) | five instants, lifetimes 2 and 3, one fault of each kind, documents of two lengths; 3.2 million states |
| `refresh_live` | Does it get stuck, or stay unsaved? (`RefreshedOrExits`, `SavedInTheEnd`, `CancelStopsRefresher`) | twelve instants, lifetimes 3 and 4; one lost answer, one stray answer, one failed save; a clock that may be a second late |
| `shared_file` | What do two sidecars on one token file do to it and to each other? (`FileAlwaysLoads`, `RotatedWhenDue`) | eight instants, lifetimes 5 and 6, a clock that may be a second early or late; refreshes of both, in turn and at once; documents of two lengths |
| `signing_timely` | Is the one-second margin enough for the token in memory (`FreshToken`), and for a request across the refresh (`NeverRefused`)? | ticks of a third of a second, seventeen of them: several refreshes; round trip, delay and error of the clock of one tick each; two failed saves |
| `handlers` | Is it a remote signer? Who can crash it? Does it take CubeSigner's answers as they are? (`TypeOK`, `PanicOnlyOnStray`, `OwnAnswerSucceeds`, `IsRemoteSigner`) | two requests at a time, two messages, one token change, one stray answer, which may have a key or signature longer than the right one, or an empty one; stores in order or reordered (`WeakMemory`); 316 thousand states up to symmetry |
| `sidecar` | Start and signals (`TypeOK`, `ServesWithRefresher`, `StartSettles`, `InterruptStopsRefresher`) | three signals: one early, one handled, one too many |
| `token_data` | Does the file keep what it had, and does it hold what the memory has? (`TypeOK`, `ReloadsMemory`, `NoDataLost`) | every object over one mandatory key, `expiration`, `org_id`, `role_id` and one foreign key, each missing, null, empty, of a wrong type or of a value that is none of these; any number of failed opens and writes |
| `api_request` | Does a request go where it should, edited? (`TypeOK`, `ReachesOperation`, `EditedInOrder`) | servers with paths of up to two names, up to two editors of the client and of the call |
| `config` | Where does a setting come from? (`TypeOK`, `FollowsPrecedence`) Is it what `Sidecar` has as two steps? (`StartsAsSidecar`) | every combination of the sources, each with values of its own; 2 million states |
| `schema_filter` | Is the result closed and minimal, and does the tool end? (`TypeOK`, `OutputIsClosed`, `OutputIsMinimal`, `FilterEnds`) | all documents with three bodies that mention up to two of six references |
| `torn_token` | violated: `AuthorizationIsToken` | one request, one token change, weak memory |
| `sidecar_interrupt` | violated: `InterruptEnds` | three signals |

**Why the bounds are enough.** The refresher's state depends on the order of `now` with three expiries
and the grace period, all of which occur in `refresh` on both sides: sessions that are fresh, overdue,
expired with a good refresh token, and dead. One lost answer, one stray answer, one failed save and one
kill in the middle of a refresh can come in any order and with any number of clean kills and restarts in
between. Documents of two lengths give overwrites that leave a tail and ones that do not; a cut write
gives a spliced file. In `refresh_live` a session that is
granted at instant 3 to 6 and whose save fails expires while the model's clock goes on, and its successor is
granted and saved before it stops; what is still open then is excepted for the session that was not saved, not
for its successor (`BeyondMaxTime` is about the first of the two only). In
`shared_file` both processes start at any time, refresh, save in either order and overwrite each other's
documents with longer and shorter ones; there are no faults, because the question is what the two do to
each other. In `handlers` two requests suffice for two handlers to race for the key cache and
to be answered out of order, for one of them to be forged and the other not, and for a third to come after
both and find the key one of them left; the token changes once, which is enough to tear it. Requests and
messages are alike, and `IsRemoteSigner` has no liveness part, so their symmetry is sound. In `token_data` a second
mandatory or foreign key would only be treated as the first is. In `schema_filter` three bodies make every
shape that a work list can get wrong: a circle of one, two and three, a component reached in a second
round only, one reached twice, one that nobody defines, a section that is not followed and one that the
document does not have. In `config` the token file of the flag can be in any of five states on disk and
the file's port does not fit into 16 bits or is no number. The theorems remove most of these bounds.

**Deadlock is not checked** in the runs: the clock is bounded (`MaxTime`), the tokens are finitely many,
and the process or the tool may have ended for good (`log.Fatalf`, a panic, a file that does not decode, a
document that is written); the system may stop there.

**Fairness.** `FairSpec` of `TokenRefresh` has weak fairness of each step of the goroutine (the Go
scheduler runs a runnable goroutine; a select with a ready case goes on) and of the clock. It has none of
`AnswerCall`: the client has no timeout (`http.Client{}`, `client.go` 67) and the call no deadline
(`context.Background()`, line 66), so a service that accepts the connection and never answers stops the
refreshes for good, and an interrupt does not end the goroutine either. The liveness properties say so:
each holds if no call stays without an answer for ever (`Answered`). The fault actions, signals, kills,
restarts and abandoned requests have no fairness. `FairSpec`
of `Sidecar` has weak fairness of the steps of the goroutines, and none of signals, failures of `Serve`,
panics, `log.Fatalf`, the timer (whose time is not in that model) and the return of the refresher's call:
`InterruptStopsRefresher` and `InterruptEnds` have the premise `Answered` as well. `ServesWithRefresher` says that
there is a refresher, not that its call ever returns. `FairSpec` of `SchemaFilter` has weak fairness of `Next`: a sequential program goes on until it ends.

## What the violated runs show

* `AuthorizationIsToken`: `signerserver_test.go` line 130 compares the header with the token. A handler
  that loads the string while line 75 stores it may send a header that is no token; the service refuses
  it and the validator misses a signature. `IsRemoteSigner` holds all the same: the harm is an error.
* `InterruptEnds`: an interrupt cancels the context and leaves the gRPC server running (nothing calls
  `Stop`; `signal.Notify` took the default action away), so the "server exited gracefully" of `main.go`
  line 49 is never reached, and the sidecar serves on until its token has expired and for ever after.

Five weaknesses show in what holds. `PanicOnlyOnStray` is the strongest statement that holds: an
answer that is not JSON (an HTML error page of a gateway) leaves `JSON200` and `JSONDefault` unset, line
153 dereferences a nil pointer, and grpc-go does not recover. `MemoryOnlyAdvances` needs its exception for
stray answers: a 200 with any JSON object replaces the session by a blank one, in memory and on disk. And
`IsRemoteSigner` needs two exceptions in `RemoteSigner`. A 200 with any hex text, or with none behind the `0x`, is
taken for the result (lines 153 and 232); a public key it gave is cached (160) and replied to every later
request for the life of the process. And `s.publicKey` is written by one handler and read by another
without a lock: on arm64 (`WeakMemory`) a handler may see its pointer before its length and reply with
an empty key and no error, in the moment between the two. `SavedInTheEnd` says no more than that the *next* refresh saves: a failed save
is not retried, and a sidecar that is stopped in the meantime has lost its session (`Lose` of
`SessionStore`). And `RotatedWhenDue` needs its exceptions: a second sidecar that is started by mistake on
the port of the first, while a refresh is due, may take the session away from it before it fails in
`Listen`, and one on another port may save the older session last.

Reading the code for `Config` showed one more: `config.go` line 28 says that the "existence and permissions
of the file" are checked, and `os.Stat` (line 30) does not look at the file's own mode. A sidecar with a
token file that may only be read starts and serves, and every save is a `SaveFails`.

## What is proved

All theorems are for every value of the constants that satisfies the named assumptions.

| Theorem | Statement | Argument |
|---|---|---|
| `WriteThenRead` (`TokenRefreshProofs`) | after a complete save the file yields the session saved, whatever it held | the first `size` cells are the document, and the decoder looks at no others |
| `TypeCorrect` | `[]TypeOK` | inductive as it stands |
| `DiskMirrors` | `[]DiskMirrorsMemory` | `DiskInv` adds that the file is readable also while a save is pending or the process is down: a restart needs it |
| `EpochsOrdered` | `[]EpochOrder` | `EpochInv` adds that no cell is newer than the first one, because a restart takes the first document and would otherwise fall behind the tail |
| `MemoryAdvances` | `MemoryOnlyAdvances` | from `EpochOrder`: a granted answer is newer than the memory |
| `HoldsCurrentSession` | `[]SessionCurrent` | `CurrentInv` adds that the file of a process that is down holds the service's session, and that no abandoned request is under way: a crash hands over through the file, and such a request would rotate the session unseen |
| `ImplementsSessionStore` | `Spec => KeepsSession` | every step is one of `SessionStore` or a stutter; `StoreInv` adds that without a stray answer a session that the file yields is also the one in memory, so that no save can replace it by another; `CutWrite` that a save that stops halfway does not bring back a session or damage the document it was writing |
| `TokenStaysFresh` (`RefreshInUseProofs`) | `[]FreshToken` | `InTime` says for every place of the goroutine how much of the token's life is left there, for every error of the clock; `HoldsCurrent` that the session is the service's, without which the refresh could be denied and come too late |
| `NoRequestRefused` | `[]NeverRefused` | `RequestInv`: a request has the current session or the previous one, and then (`HasPrevious`) it arrives before the grace period ends, before the token expires and before the next rotation, because the new session's refresh is almost a whole lifetime away |
| `SharedFileLoads` | `[]FileAlwaysLoads` for two sidecars | `SharedInv`: no document in the file, in a memory or on the way is newer than the service's session, and one that is as new *is* that session (`Issued`); and, whoever saves last and whatever tail it leaves of the other's document, what the decoder reads is whole (`SoundFile`) |
| `SharedRotation` | `RotatedWhenDue` | from `SharedInv`: whatever request the service answers, an abandoned one too, has a session that was issued and is due (`Due`); the service grants it only if it is its current session, or the one before in its grace period |
| `OnlyStraysPanic` (`SignerHandlersProofs`) | `[]PanicOnlyOnStray` | `HandlersInv`: what is parsed came from `Answers` or was counted as stray; `AnswerIsRight`: the first kind never panics |
| `AnswersSucceed` | `[]OwnAnswerSucceeds` | what is parsed came from `Answers`, and the one field that the parser of `PublicKey` knows is not among the `Undocumented` |
| `ModifiedParserAgrees` | what the generated parser of `PublicKey` takes, the modified one takes with the same result | its type is particular at fewer places |
| `ImplementsRemoteSigner` | `Spec => IsRemoteSigner`, for both memory models and whatever stray answers decode to | every handler step is `Ask`, `Forge`, `Reorder`, `Answer`, `Take`, `GoAway` or a stutter; `AnswerIsRight` gives that a result of CubeSigner's is the right one, `StrayValue` that any other is one of those a forger may give. `KeyInv` says what `s.publicKey` can be: nil, the right key, or, after a forged one, any slice of either; and a length of 0 under a pointer only while a handler is about to store it |
| `TypeCorrect` | `[]TypeOK` | `HeaderTyped` adds that a header taken in two loads has a pointer that was some token's |
| `ServesRefreshed` (`SidecarProofs`) | `[]ServesWithRefresher` | a refresher that returned saw a cancelled context; one that is in its call comes back to its loop |
| `TypeCorrect` | `[]TypeOK`, with it that `Listen` comes after the start of the refresher | the same invariant |
| `RoundTrip` (`TokenDataProofs`) | a file that has every key of the structs is written back as it was read | the two `Put`s write what is there; the first one is undone for `org_id` by the second |
| `FileReloadsMemory` | `[]ReloadsMemory` | `DataInv` adds what the memory knows while the process runs (`MemoryKnowsFile`): `RawData` decodes and has every key of an undamaged file, and the ID is the file's. Without it the next save could bring back another `org_id` or role |
| `FileKeepsData` | `NoDataLost` | from `DataInv`: what `MarshalJSON` writes over is `RawData`, which has all of the file, and of the document that a failed write left on no disk |
| `TypeCorrect` | `[]TypeOK` | what `MarshalJSON` makes is an object again |
| `WritesClosed` (`SchemaFilterProofs`) | `[]OutputIsClosed` | `FilterInv`: the operations' references are kept or on the work list, and after an empty rescan nothing is left that a kept component mentions |
| `KeepsMinimal` | `[]OutputIsMinimal` | `NothingSuperfluous` of `FilterInv`: what is followed and kept, or on the work list, is in every sufficient set |
| `TypeCorrect` | `[]TypeOK` | only sections that the document has are assigned to |
| `RequestReaches` (`ApiRequestProofs`) | `[]ReachesOperation` | `HasSlash`: a client that there is has a slash at the end of its server, without which `Resolve` would drop the server's last segment; `RequestInv`: an editor changes nothing but the header |
| `RequestEdited` | `[]EditedInOrder` | `EditorsInv`: what is left to do is the tail of the two lists, what was done did not fail, and the header is the last one's; for lists of every length |
| `TypeCorrect` | `[]TypeOK` | the same invariant |
| `SettingsFollow` (`ConfigProofs`) | `[]FollowsPrecedence` | `ConfigInv`: from `BuildConfig` on the configuration is what viper finds; `FirstSaid`: what it finds is what the first source says that says anything |
| `ImplementsSidecarStart` | `Spec => StartsAsSidecar` | each step is `Configure`, `ConfigureEnds`, `New`, `NewFails` or a stutter; `ConfigInv` tells in which of the two a process failed |
| `TypeCorrect` | `[]TypeOK`: the port fits into 16 bits | a text that is no 16-bit number never gets to `DecodePort`, and a number is cut |

The assumptions: `ConstantsAssumption` (a second is at least one tick, documents are not empty),
`TimelyAssumption` (a round trip takes at most the margin, less what the clock may be late; margin and
round trip fit into a token's life; the refresh token outlives the auth token by enough for a clock that
is early), `SigningAssumption` (round trip and delay together fit into that margin and are shorter than
the grace period; with the margin and the error of the clock they are shorter than a token's life),
`HandlersAssumption` and `SidecarAssumption` (types), `TokenDataAssumption` (the keys of the structs and
the special values are distinct), `SchemaFilterAssumption` (what a document is), `ApiRequestAssumption`
(what a server is; the literal parts of a path, and the names in a server's own, need no escape),
`ConfigAssumption` (the sources have the settings, and ports of the right widths). Theorems that share a
module do not share assumptions: `WriteThenRead` uses none, `TokenStaysFresh` and what is about
`SharedTokenFile` do not use `SigningAssumption`, and the latter not `TimelyAssumption` either: two
sidecars may have any clocks and any round trips.
Each of the three inequalities of `SigningAssumption` is needed: TLC finds a
refused request when the grace period or the lifetime of `signing_timely` is a tick shorter, or the clock
a tick later.

**The lemmas about one process hold of two.** `RefreshInUseProofs` instantiates `TokenRefreshProofs` with
the variables of the second sidecar (`Twin`). `SoundStep` there is a step of one process as the other one
sees it: it keeps the file and the service sound, and leaves the other's memory sound because the service
only goes on (`ServiceGoesOn`). `SharedInv` says less than the invariants for one process, and has to:
`DiskMirrorsMemory`, `SessionCurrent` and `EpochOrder` are false for two.

Only model-checked: the liveness properties (`RefreshedOrExits`, `SavedInTheEnd`, `CancelStopsRefresher`,
`StartSettles`, `InterruptStopsRefresher`, `FilterEnds`), which are out of the prover's reach. Every
invariant and every action property of the passing runs, and both refinements of an abstract
specification, are proved.

## Not modelled

* The bytes of the JSON text, of tokens and of signatures. A session is its epoch, its expiries and its
  length; a signature is which message it is for and under which ciphersuite.
* What is inside the union types of `api/types.go`, which the sidecar decodes and never looks into:
  decoding one keeps its bytes and refuses nothing (`ApiTypes`). Their `As`, `From` and `Merge` methods, the
  `Status` and `StatusCode` methods of the responses and the types that only these mention are generated
  code that nothing in the repository calls. Keys inside
  `session_info` that its struct does not have are dropped by a save; `TokenData` takes the whole of
  `session_info` as one value, and its properties speak of the keys of the file.
* A token file that is the JSON value `null`: it decodes to a blank session, whose refresh token has
  expired, and the process ends at once.
* Ids that are dot segments (`.` and `..`), which resolving a URL would remove: CubeSigner's ids are not.
* References inside the sections of the document that are not followed: `SchemaFilter` models that they
  are not, and `OutputIsClosed` does not speak of them. `securitySchemes`, the one section of this kind
  today, has none.
* The health check, which registers a handler on `http.DefaultServeMux`; nothing serves that, and it has
  no state. The mocks and the tests.
* The end of `Serve` without an error: nothing stops the server.
* The rate of the immediate retry after a failed refresh (line 117): a model whose clock may stand still
  between two calls says nothing about it. `RefreshedOrExits` says that the retries end.
* A clock of the machine that is wrong by more than `Skews`. How wrong it may be for the token to stay fresh is
  in `TimelyAssumption`.
* Faults in `SharedTokenFile`, and more than two sidecars on one file. There `New` reads the file in one step,
  while `json.Decoder` reads it in blocks: a start that overlaps a save of the other sidecar may see a part of each
  document.
* What a file that a failed write has damaged decodes to, key by key: in `TokenFile` it is a session put together
  from the two documents, in `TokenData` any object.
* Negative numbers as the port of the configuration file: what a negative floating-point number is converted to
  is up to the machine. Server URLs with a query or a fragment in `ApiRequest`.

## Plan

Done: the modules and the proofs above. Left: `TokenData` composed with `TokenRefresh`, so that
`RoundTrip` and `WriteThenRead` meet in one statement about restarts: the session that `SessionStore`
calls saved has all the keys of the file.

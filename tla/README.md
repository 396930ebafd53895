# Formal models of osde2e's configuration loader, OCM role client and Prometheus transport

This directory holds the TLA+ specifications, TLC model-checking
configurations and TLAPS proofs kept beside the osde2e sources in `src/`.
Run everything from this directory:

    tlasany ConfigLoad.tla
    tlc -workers 2 -config MC_ConfigLoad.cfg MC_ConfigLoad
    tlapm ConfigLoad_proofs.tla
    tlapm ConfigLoadPrecedence_proofs.tla

`PROJECT.json` lists the components, runs, mutants, the map from every model
definition to the source lines it translates, the findings, the hazards and
the theorems.

## The system and its parts

| Part | Source | Module | Status |
|---|---|---|---|
| Layered config loader (`IntoObject`) | `src/pkg/common/load/load.go` | `ConfigLoad`, `MC_ConfigLoad`, `ConfigLoad_proofs`, `LayeredConfig`, `ConfigLoadLayers`, `MC_ConfigLoadLayers`, `ConfigLoadLayers_proofs`, `ConfigLoadPrecedence_proofs` | modelled |
| OCM `role` resource client | `src/unnamed/part_000` | `RoleClient`, `MC_RoleClient`, `RoleClient_proofs` | partly |
| Prometheus client transport | `src/pkg/common/prometheus/connect.go` | `PrometheusTransport`, `MC_PrometheusTransport`, `PrometheusTransport_proofs` | modelled |
| Generated `AlertsInfo` / `AlertInfo` builders | `src/vendor/.../clustersmgmt/v1/alerts_info_builder.go` | none | not modelled |

The config loader fills the osde2e configuration struct before a test run.
It runs four layers in order:

1. struct-tag defaults;
2. packaged YAML overlays;
3. an optional custom YAML file;
4. environment variables.

The role client is one of the generated OCM SDK clients that the test
harness uses to talk to the OCM API. Its requests run over an
`http.RoundTripper`. connect.go builds such a transport for Prometheus, and
the builders construct the values that OCM clients send and receive. The
loader and the client do not call each other. What they share is the
caller's single goroutine: the config is loaded first, then clients are
built from it.

## ConfigLoad: `IntoObject` (load.go)

**Schema as constants.** The config struct is a fixed schema:

- the leaf fields by reflect kind (`StrLeaves`, `BoolLeaves`, `IntLeaves`,
  `SliceLeaves`);
- `Fields`, the depth-first order in which `load()` visits them;
- `Frame`, the nested struct, i.e. the recursive `load()` call, that owns
  each leaf;
- `Enclosing`, the frames whose loops enclose a frame's call;
- the `default` and `env` tags of each leaf (`NoTag` when absent).

Overlay documents are decoded values (`Docs`). Each document records the
keys it sets per kind, the keys whose YAML type does not fit (`bad`, a
`yaml.TypeError` after decoding the rest), and whether it is syntactically
broken. `Bundled` and `OnDisk` say where each document can be found.

**State.** The variables are:

- the four field maps `strs`, `bools`, `ints`, `slices`;
- the pass (`pc`) and the walk position (`pos`);
- the `setValue` local of each frame;
- `aborted`, the frames whose loop returned an error;
- `ci`, the overlay index;
- the inputs `configs`, `custom` and `env`;
- `tmpDirs`, the number of temporary directories created;
- `base`, the object after the default pass, used by the properties;
- `fieldErrors` and `unapplied`, which record where `processValueFromString`
  failed.

**Actions.**

- `LoadDefault` and `LoadEnv` each model one iteration of `load()`'s loop
  (load.go:79-103) on the next leaf, including the tag lookups, the `continue`
  on a missing tag or an empty env variable, and the call to
  `processValueFromString`.
- `SkipReturned` covers a leaf whose frame, or an enclosing frame, has
  already returned an error. The enclosing call ignores that error
  (load.go:84).
- `ProcessValue` translates every branch of `processValueFromString`:
  - `__TMP_DIR__`, whose `TempDir` may fail;
  - `__RND_N__`, which fails when `Atoi` overflows;
  - `ParseBool` and `ParseInt`;
  - the slice branch that appends the comma-split parts.
- `FinishDefaults`, `StartEnv`, `FinishBundled` and `FinishEnv` move between
  passes. `loadDefaults` and `loadFromEnv` drop `load()`'s error.
- `LoadBundled` and `LoadCustom` model `loadYAMLFromConfigs` and
  `loadYAMLFromFile`. The document may be missing (an error that ends
  `IntoObject`), broken, or partially decoded; a merged document overlays
  only the keys it sets. `LoadBundled` may also fail for a name that
  exists, because `ioutil.ReadAll` on the packaged file can fail
  (load.go:127). `LoadCustom` includes the `log.Fatalf` exit when
  `Getwd` fails.

Random strings and directory names are abstracted: a `StrVal` records its
origin and its length or index. A raw string is one of a small set that
covers each branch.

**Instance.** `MC_ConfigLoad` is a struct with a nested `Addons` struct and
one leaf of each kind:

- two leaves without an env tag;
- one leaf without a default tag;
- env values that are empty, `"1"` (an int, a bool and a one-element list
  at once), the temp-dir sentinel, a well-formed random directive, one whose
  length overflows `Atoi`, and a malformed one;
- bundled overlays `stage`, `prod`, `typo` (a type error) and `broken`, plus
  a missing one;
- custom files that exist, are missing, or are broken.

The env pass reaches every branch of `processValueFromString`, the `Atoi`
overflow included. The default pass reaches the temp-dir, random, string,
bool and slice branches; its only int field has no default tag. The
instance also covers overlays in both orders, failures at every stage, and
an error inside the nested frame. TLC explores about 450,000 distinct states in under 20 seconds.

### What `IntoObject` promises: `LayeredConfig`

`LayeredConfig` is an abstract specification of `IntoObject`
(load.go:41-73), written at the grain of its stages. Its state is:

- `stage`: `"defaults"`, `"layers"`, or how the call ended;
- `obj`: the target struct;
- `pending`: the layers still to merge. These are the bundled names of
  `configs`, in order, then the custom file if a path was given.

It has four steps:

- `Defaults` may set any field that has a `default` tag, and leaves every
  other field at its zero value.
- `ApplyLayer` merges the first pending layer structurally: the keys the
  document sets overwrite their fields, and the others are kept. Only a
  layer that is present and decodes without error lets the call go on. Any
  layer may instead end the call with an error, and the target is then left
  in any state of its type: spec section 5 says that partial mutation of
  the target on failure is acceptable. A custom layer may also end the
  process (`os.Getwd` failing). The code's own failure, a type error that
  keeps the document's other keys (load.go:131, `yaml.Unmarshal`), is one
  of the failures the abstract step allows.
- `EnvPass` may give the target any value of its type. It is left open
  because of the untagged-field finding below.
- `Return` ends the call.

`ConfigLoadLayers` maps `ConfigLoad` onto this specification:

- During the default pass, `stageBar` is `"defaults"` and `objBar` is the
  zero object. The pass's last step, `FinishDefaults`, is the abstract
  `Defaults` step.
- The bundled, custom and env stages are `"layers"`.
- `pendingBar` is the rest of `configs` from `ci` on, followed by the custom
  layer.

Each iteration of the configs loop is one `ApplyLayer`, and so is
`loadYAMLFromFile`. The other steps of the field walk are stutters.
`LayersRefined == L!Spec` is checked as a temporal property. The abstract
step is deliberately no stricter than the spec about the target after a
failure, so a loader that left the object untouched on a type error would
implement it too. What the refinement pins down is the success path: the
layers are merged in order, one at a time, and none is skipped.

## RoleClient: the OCM role client (part_000)

**Requests.** `Send` is one direct `Send`/`SendContext` of a Get, Update
(PATCH) or Delete request. Its outcome is chosen from the set of results the
code can produce:

- the transport fails;
- `marshal` fails (Update only);
- a status of 400 or more, where `errors.UnmarshalError` either decodes the
  typed error or fails;
- a status below 400, where the body decodes or not (Get and Update).

The transport is the network, so every status and body is possible.

**Polling.** `Poll`, `Status`, `Predicate` and `Interval` are the builder
calls. `StartContext` and `PollStep` model `helpers.PollContext`, which lives
outside `src/`. They are written from the contracts in the doc comments of
`StartContext` and `Interval` and marked `spec_modelled` in the map:

- a context without a deadline, or a non-positive interval, is refused;
- each iteration calls `task`, which sends the Get request;
- an accepted response ends the loop;
- otherwise the loop sleeps, unless the deadline comes first. The deadline
  is the bound `MaxPolls`. What `PollContext` returns on the deadline, besides
  its error, is left open.

`Access` is the caller reading the poll response through one of its
accessors.

**Instance.** `MC_RoleClient` uses statuses 200, 399, 400 and 503, which
sit on both sides of the 400 boundary. It has two bodies, one predicate that
accepts one of them, intervals 0 and 1, and a deadline that leaves room for
two task calls.

## PrometheusTransport: the Prometheus client (connect.go)

`CreateClient` builds a client_golang `api.Client` on `weatherRoundTripper`,
an `http.Transport` whose `Proxy` callback `Header.Add`s the bearer token to
the request it is asked about. The file is 37 lines; what it does is decided
by `net/http`, so the module models the steps `net/http` takes around those
lines for one caller goroutine:

- `Do`: the caller's `Client.Do` of a fresh GET or POST (client_golang
  retries a refused POST query as a GET), with or without a context deadline.
- `ProxyStep`: the start of each iteration of `Transport.roundTrip`'s loop,
  which calls `Proxy` (connect.go:17-20) on the *same* request, and
  `ProxyFromEnvironment`, which may fail.
- `GetConn`: an idle keep-alive connection from the pool, or a new dial.
- `Connect`: the dial and the TLS handshake, each bounded by the
  `Dialer.Timeout` and `TLSHandshakeTimeout` that connect.go:21-28 set.
- `Exchange`: `persistConn.roundTrip` ends in one of five ways: a stall
  that only the caller's deadline ends (no `ResponseHeaderTimeout` is set);
  an answer; a 302/307 redirect that `http.Client` follows with a copy of the
  caller's header; a reused connection closed after the request was written,
  which is retried for a GET; a reused connection closed before anything was
  written, which is retried.

`CreateClient`, `WeatherTransport`, `Bearer` and `Proxy` translate
connect.go. `Do`, `GetConn`, `Exchange` and their helpers are the
environment (`net/http`, client_golang and the servers) and are not mapped.
The history variable `sent` records every request written on the wire with
its host and headers.

**Instance.** Two hosts (Prometheus and another one), two idle connections
per host (`http.DefaultMaxIdleConnsPerHost`), three calls and one redirect
per call. That is enough for a pooled connection to be reused and then found
closed, and for a retry and a redirect to happen in the same call. TLC
explores about 260,000 distinct states.

## Runs

Passing runs. Every property also has a mutant in `PROJECT.json` that
breaks it.

- **config_load** checks three properties:
  - `TypeOK`;
  - `OverlayLastWriterWins`: between the default pass and the env pass,
    every field holds the value of the last merged overlay that sets it, or
    its default;
  - `EnvPrecedence`: on return, a scalar field whose env variable is set
    holds that variable's value, unless an earlier error in the env pass cut
    its struct's loop short.
- **config_layers_refinement** checks `LayersRefined` on the same instance
  (about 450,000 states): `ConfigLoad` implements `LayeredConfig`. Its
  mutant, `LoadBundledSkipMissing`, lets the configs loop skip a name that
  is not packaged instead of returning the error. The run then fails,
  because a layer would be passed over without being merged.
- **role_client** checks two properties:
  - `TypeOK`;
  - `SendContract`: a nil error comes with a response below 400 that
    carries a body for Get and Update, and a response of 400 or more, or no
    response, always comes with an error.
- **prometheus_transport** checks two properties:
  - `TypeOK`;
  - `RequestsCarryTokenAndCallerHeaders`: every request written, first
    attempt, retry or redirect, carries at least one Authorization value, all
    of them the bearer token, and the Content-Type the caller set.

Violation runs. Each checks one property that the spec states and the code
does not keep (see "findings" in `PROJECT.json`):

- **config_untagged_env** (`UntaggedFieldKeepsValue`): in the env pass, a
  field with no env tag is reprocessed with the stale `setValue` of the field
  before it (load.go:91-100).
- **config_field_error** (`FieldErrorReported`): `IntoObject` returns nil
  after a field parse error. load.go:84, 113 and 169 drop the error.
- **config_env_slice** (`EnvSliceReplaces`): an env list is appended to the
  default list instead of replacing it (load.go:210).
- **config_malformed_rnd** (`MalformedRndRejected`): `__RND_abc__` is stored
  verbatim (load.go:34, 186).
- **role_typed_error** (`TypedErrorFor4xx`): a 4xx/5xx response whose error
  body does not decode comes back without a typed error (part_000:359).
- **role_poll_nil_body** (`PollAccessorsNilSafe`): `Body()` and `GetBody()`
  on the nil `RolePollResponse` of a failed poll dereference nil
  (part_000:190-200). Its `Status`, `Header` and `Error` are nil-safe.
- **prometheus_duplicate_auth** (`AuthorizationOnce`): a request retried on
  a new connection carries the token twice, because `Proxy` runs again on the
  same request and `Header.Add` appends (connect.go:18).
- **prometheus_token_redirect** (`TokenStaysWithPrometheus`): after a
  redirect to another host the token is sent there. `http.Client` strips
  an Authorization header that the caller set, but `Proxy` adds it back on
  every hop (connect.go:18).

## Fairness and liveness

No specification assumes fairness, and no liveness property is checked.
Every component runs in one goroutine, and each of its loops runs over a
finite list: the fields of the schema, the names in `configs`, the polls up
to `MaxPolls`, and the caller's `MaxCalls` calls. A property that such a
loop ends would hold by the shape of the model, whatever the code does. In
the Prometheus transport, the timeouts that end a stalled dial or handshake
are constants of `weatherRoundTripper`, so a property that those phases end
would only restate them.

`CHECK_DEADLOCK FALSE` is set because the terminal states are real ends of
the program:

- `IntoObject` returns or exits;
- the caller is done after reading the poll response;
- the transport's caller stops after `MaxCalls` calls, or a request waits
  for ever on a server that never answers. That is the code's behaviour: the
  Transport sets no `ResponseHeaderTimeout`.

## Proofs

`ConfigLoad_proofs` proves `THEOREM TypeCorrect == Spec => []TypeOK` for
every schema and input that satisfy `ConstantsOK`. `ConstantsOK` requires:

- the kinds are disjoint;
- `Fields` lists every leaf exactly once;
- `Frame` and `Enclosing` are consistent;
- the documents are well typed.

`TypeOK` is inductive as it stands. The proof has three layers:

1. Lemmas about the value operators, such as `Lit`, `TmpDir`, `RndStr` and
   `SplitComma`.
2. Generic lemmas that an `EXCEPT` update and `Overlay` preserve a function
   type (`ExceptTyped`, `OverlayTyped`).
3. One lemma per action (`LoadDefaultTyped`, `LoadEnvTyped`,
   `LoadBundledTyped`, ...). These rest on shared lemmas for
   `ProcessValue`, `Fail`, `Merge` and `Unmarshal`. `NextTypeOK` splits
   `Next` by action.

The temporal step combines `InitTypeOK` and `NextTypeOK` by PTL. The
type-correctness result matters here because the loader writes through
reflection:

- a slice field gets appended comma-split strings;
- an int field gets a parsed integer;
- overlays replace fields wholesale.

`RoleClient_proofs` proves, for every set of statuses, bodies and bounds
that satisfy `RoleClientConstants`:

- `TypeCorrect`: `Spec => []TypeOK`;
- `SendContractHolds`: `Spec => []SendContract`.

`TypeOK` is inductive. The proof builds it from small lemmas about what each
request's `SendContext` returns (`RespTyped`, `ErrorsFacts`, `BodyTyped`,
one per method). `SendContract` is then proved step by step from `TypeOK`:
every outcome `SendContext` can produce meets the contract.

`PrometheusTransport_proofs` proves `TokenAndHeadersHold`
(`Spec => []RequestsCarryTokenAndCallerHeaders`) and `TypeCorrect` for
every set of hosts, token and bounds. The property is not inductive by
itself: a step that writes a request copies `hdr`, which the property does
not speak of. The strengthening `HeaderInv` says that the Transport's header
keeps the caller's Content-Type, and that from the connection phases on it
holds at least one Authorization value. That is true because every way into
those phases passes through `Proxy`, which appends one, and a redirect
resets the header to the caller's copy but goes back through `Proxy`. The
inductive invariant `IInv` is `TypeOK /\ HeaderInv /\` the property. It was
checked with TLC first, and the proof has one case per action and, under
`Exchange`, per way the exchange ends.

`ConfigLoadLayers_proofs` proves `THEOREM Refinement == Spec =>
LayersRefined` for every schema and input that satisfy `ConstantsOK`. The
mapping is not a refinement from every type-correct state, so the proof
uses the inductive invariant `RInv == TypeOK /\ DefaultsInv /\ CustomInv`.
TLC checked `RInv` first. Its two added conjuncts say:

- `DefaultsInv`: during the default pass, `ci = 1` and every field without a
  default tag still holds its zero value. This is what makes
  `FinishDefaults` an abstract `Defaults` step: the pending layers are all
  of `configs`, and `UntaggedZero` holds.
- `CustomInv`: the custom stage is reached only with a non-empty path. This
  makes the custom file the one pending layer there.

The proof rests on these lemmas:

- Generic lemmas about the pending layers: `PendingBundled` (head and tail
  of the layers at index `ci`), `PendingAfterLoop` and `ToLoadEmpty`.
  They are stated over any element set and use `SequenceTheorems`.
- `ProcessValueOnly`: `processValueFromString` writes only its field.
- `MergeMaps`: `yaml.Unmarshal`'s merge is the abstract `Merged`.
- One lemma per action that maps it to its abstract step or to a stutter.
  `StepRefined` combines them.

PTL joins `InitRefined`, `InitRInv`, `NextRInv` and `StepRefined`.

`ConfigLoadPrecedence_proofs` proves both precedence rules of `IntoObject`
as invariants, for every schema, environment and set of documents that
satisfy `ConstantsOK`.

- `THEOREM OverlayLastWriterWinsHolds == Spec => []OverlayLastWriterWins`.
  The inductive invariant is `IInv == TypeOK /\ LWInv /\ DefaultsStart /\
  CustomGiven`. `LWInv` restates the property with `LW`, which is
  `LastWritten` with the default-pass object as a parameter (`base`). This
  lets a step's primed state be compared with the unprimed one. `LWInv`
  also carries `HasLast`: among the merged documents that set a field, one
  comes last. `LastWritten` picks that document with CHOOSE. The provers
  cannot show that it exists by induction over the index set, so the
  invariant keeps it one merged document at a time. `LastAppend` is the key
  lemma: merging one more document keeps `HasLast`. Afterwards the
  document's value is the last-written one if the document sets the field,
  and the old last-written value if it does not. `DefaultsStart` (the
  configs loop starts at 1) and `CustomGiven` (the custom stage has a path)
  make `Applied` grow by exactly the document each step merges.
- `THEOREM EnvPrecedenceHolds == Spec => []EnvPrecedence`. The inductive
  invariant is `EInv == TypeOK /\ EnvInv`. During and after the env pass,
  every leaf before `pos` in `Fields` whose variable was applied holds that
  variable's value (`EnvSet`). At `done`, `pos` is past the last leaf.
  `ProcessValueStores` says that `processValueFromString` either adds its
  field to `unapplied` or stores what the raw string says. `ProcessValueOnly`
  says it writes nothing else. `EnvKept` says that a leaf nothing writes
  keeps its value, because `unapplied` and the count of temporary
  directories only grow. `Fields` lists every leaf exactly once, so at
  `done` every leaf has been passed.

TLC checked both `IInv` and `EInv` as invariants of `MC_ConfigLoad` before
they were proved.

**TLC only.** These results are model-checked, not proved:

- the properties of the violation runs (`UntaggedFieldKeepsValue`,
  `FieldErrorReported`, `EnvSliceReplaces`, `MalformedRndRejected`,
  `TypedErrorFor4xx`, `PollAccessorsNilSafe`, `AuthorizationOnce`,
  `TokenStaysWithPrometheus`). TLC finds each of them violated by what the
  code does, so there is nothing to prove.

Every safety property of a passing run is now proved.

No module uses RECURSIVE operators. No liveness property is stated (see
"Fairness and liveness"); had there been one, it would stay with TLC, since
TLAPS does not prove liveness under fairness.

## Not modelled, and planned

- **In connect.go**: `InsecureSkipVerify` is recorded as a setting
  (`verifyCerts`) but no attacker is modelled. HTTP/2 is not modelled either:
  the custom `TLSClientConfig` keeps the Transport on HTTP/1.1.
- **alerts_info_builder.go.** These are pure value builders. The error
  branch of `AlertsInfoBuilder.Build` (line 65) cannot be taken, because
  `AlertInfoBuilder.Build` never returns an error, and nothing else in
  `src/` uses the builders. There is no state for TLC to explore.
- **The Parameter and Header builders of the role client.** They fill
  `url.Values` and `http.Header` maps that no property reads. The `Role`
  wrap and unwrap (JSON) is abstracted to decodes or fails.
- **External libraries** (`yaml`, `pkger`, `strconv`, `ioutil`) are modelled
  only by their outcomes.
- **Planned proofs:** `EnvPass` of `LayeredConfig` could be narrowed to "each
  env-tagged field takes its variable's value" once the untagged-field
  finding is fixed in the code.

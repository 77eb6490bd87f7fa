# TLA+ models of the WASM chaincode trampoline

These modules model the system under `src/`. A caller (the chaincode
wrapper) sends an invocation over a gRPC duplex stream to an untrusted relay
(`fixed-proxy/main.cpp`). The relay drives an OP-TEE trusted application
(`wrapper_ta/ta/main.c`). The TA runs a WebAssembly chaincode
(`wrapper_ta/chaincode/coffee_chaincode_wasm.c`) one step at a time through a
*trampoline*:

- Each state access of the chaincode goes through a native function
  (`chaincode_native_functions.c`). That function records a pending
  GET/PUT request in the TA's session context and returns.
- The TA reports the request to the relay. The relay forwards it to the
  caller.
- The relay then resumes the TA with the answer.

## 1. Inventory

| Part | Source | State | Operations | Interacts with |
|---|---|---|---|---|
| Shared Record Protocol | `chaincode_tee_ree_communication.h`, `session.h` | the session context `g_chaincode_sess` (args, pending_type, key, value, out buffer, response, has_response, runtime) | none (layouts, capacities) | everything |
| Native Bridge | `chaincode_native_functions.c` | writes the session context | `cc_get_function`, `cc_get_arg`, `cc_get_state`, `cc_put_state`, `cc_return_response` (plus `cc_log`, `memset`/`memcpy`/`memmove`) | called synchronously by the guest inside one `call_step` |
| Chaincode FSM | `coffee_chaincode_wasm.c` | globals `fsm_state`, `current_op`, `g_function`, `g_person`, `g_arg1`, `g_cur_val` | `step_init`, `step_resume` (create/add/query init and resume), `s_atoul`, `s_ultoa` | Native Bridge |
| Dispatcher (TA) | `ta/main.c`, `ta/wasm.c` | `g_chaincode_sess`, `heap_size`, the static WAMR context | open/close session, `COMMAND_CONFIGURE_HEAP`, `COMMAND_RUN_WASM`, `COMMAND_RESUME_WASM` | the relay through `TEEC_InvokeCommand`, the guest through WAMR |
| Relay | `fixed-proxy/main.cpp` | one shared TEE session `ctx.sess`; per call the locals of `execute_wasm_with_grpc_proxy` | `TransactionInvocation`: read request, RUN_WASM, loop (forward request, read answer, RESUME_WASM), `restart_session`, return Status | the caller over gRPC, the TA |
| Startup, logging, buffers | `main.cpp` (`run_server`, `main`), `wasm.c` (output capture, hashing) | I/O only | | |

Hard behaviours in the code:

- **Concurrent threads without a lock.** The gRPC sync server gives every
  stream its own thread. All threads share the one `InvocationImpl` and its
  one TEE session, and nothing serializes them.
- **Per-call teardown is not atomic.** `restart_session` closes and then
  reopens the session after every call, in several steps.
- **Cancellation.** A caller may cancel at any time. The relay then fails a
  Write or a Read and bails.
- **Stale state.** The TA never resets `pending_type`/`has_response` on
  `RUN_WASM`. Whether that matters depends on whether the TA instance
  outlives its session (the keep-alive flag is set in
  `user_ta_header_defines.h`, which is not in the repository).
- **Panic.** A failed runtime initialisation leaves `sc->runtime` pointing at
  a zeroed context. A later `RESUME_WASM` then dereferences a NULL module
  instance.
- **Boundaries.** The fixed capacities and the relay's "copy only if shorter
  than `VAL_SIZE`". Empty keys. The `unsigned long` sum wraps.

What makes each part correct:

- **Chaincode, bridge and TA together.** Every invocation behaves like the
  contract operation (spec.md §4.2, §8) applied atomically to the caller's
  state.
- **Requests.** Each request the caller sees belongs to its own invocation.
- **Session.** A pending request excludes a final response (spec.md §3).
- **Fields.** Every field is NUL-terminated within its capacity.
- **Relay.** Every call ends.

## 2. Modules

| Module | Models | Correspondence |
|---|---|---|
| `CString` | the fixed-capacity C strings and `safe_strlen`, `s_atoul`, `s_ultoa`, the relay's `strncpy`-if-fits | a C string is the sequence of its characters before the NUL; a buffer of capacity `cap` holds `cap - 1` |
| `NativeBridge` | `session.h` and the five native functions | each native function is an operator from the session to the new session (and its return value) |
| `Chaincode` | `coffee_chaincode_wasm.c` | the globals are a record `g`; `StepResume(g, s)` is one `step_resume` call, composing the native calls it makes |
| `WasmTA` | `ta/main.c` (and the success condition of `TA_InitializeWamrRuntime`) | variables `sess`, `guest` (module instance globals or `NULL`), `runtime` (`sc->runtime != NULL`), `heap_set`, `tee_session` (closed/open/dead), `reply` (params[1]/params[2] after a command); one action per command, each atomic because OP-TEE runs one command of an instance at a time |
| `Ledger` | the abstract specification: what an invocation promises its caller (spec.md §4.2, §4.5, §7) | `ledger` (the caller's key/value state), `areq` (invocation in progress), `outcome`; `Respond` applies the operation atomically; a failed call may or may not have applied its write |
| `Proxy` | `fixed-proxy/main.cpp` composed with `WasmTA` and the callers | per thread `pc` (where it is in `TransactionInvocation`), `preq`, `op`, `answer`, `ok`; per caller `cst`, `creq`, `result`, `connected`, the two stream directions `toProxy`/`toCaller`, `status`; `undo` is a history variable for the refinement |
| `Dispatcher` | the abstract specification of the TA's phases (spec.md §4.4) | `phase` (Idle, SuspendedGet, SuspendedPut, Done) and `op`, the operation the host invoked last; `start` from any phase, `resume` moves the phase only out of a suspension, opening/closing/configuring the session only keeps the phase or ends it |
| `MCWasmTA` | the TA alone, driven by a host that issues any command at any time | the host is the environment (as the relay's unlocked threads are); `hop` is a history variable, the kind of the last command; `TAPhase` maps the TA's state to a phase |
| `MCCString`, `MCNativeBridge`, `MCProxy` | model-checking harnesses | constants, properties, the refinement mapping |

The actions of `Proxy` are the thread's steps. Each step is one stream
operation or one `TEEC_InvokeCommand`:

- `ReadRequest`
- `LoadAot` (open and read the AOT file, `calloc` the shared buffer, set up
  `op`; `op.params[3]` takes the current `ctx.output_buffer`)
- `RunWasmCall` (`RUN_WASM`)
- `Forward` (switch on the tag, `stream->Write`)
- `ReadAnswer` (`stream->Read`, the copy into the shared buffer)
- `ResumeCall`
- `CloseCall`, `OpenCall`, `HeapCall` (the three steps of `restart_session`:
  close the session and `free_buffers`; `allocate_buffers` and open the
  session; configure the heap). `bufok` records whether a thread's `op`
  still points at allocated memory, `outbuf` whether `ctx.output_buffer` is
  allocated.
- `ReturnStatus`

The caller's actions are:

- `Invoke`
- `ServeGet`, `ServePut`
- `TakeResponse`, `TakeStatus`
- `Cancel`

The caller is the environment: the chaincode wrapper is not in this
repository. It answers every request from its state and may cancel whenever
it likes. The constant `GetAnswerKinds` says which message kinds it may
answer a GetStateRequest with: only `get_state_response` for a well-behaved
caller, also `put_state_response` for one that breaks the protocol.

`WasmTA` counts in `blocks` the `TEE_Malloc` blocks the TA instance holds:
the session context (`TA_OpenSessionEntryPoint`) and the
`heap_buf_owned`/`trusted_wasm_owned` pair of every `RUN_WASM`, none of
which is ever freed. Only unloading the instance releases them. A
`TEE_Malloc` fails when `TaHeapBlocks` blocks are held, and may fail at any
time (a 10 MB pool need not fit).

The TEE client and OS behaviour is modelled from the GlobalPlatform contract,
not from code of this repository:

- `InvokeFails`: a command on a closed or dead session fails.
- `TAPanic` (fault model, constant `TaMayPanic`): the TEE kills the TA
  instance at any time its session is open, as a `TEE_Panic` in WAMR or
  the TA would. Every later command gets `TARGET_DEAD`. `Proxy` lets it
  happen between any two thread steps (`TAFault`).
- `OpenSession`: `TEEC_OpenSession` overwrites the handle, so it opens a
  session whether the old one was closed or dead (its instance already
  unloaded).
- `Destroyed`: the TA instance is unloaded with its last session unless it
  is kept alive.

Abstractions:

- Strings are sequences of one-character strings. The contract's literal
  words (`"OK"`, `"create"`, ...) are one-symbol strings `<<"OK">>`, because
  only their identity matters.
- Capacities are constants, scaled down to `KEY_SIZE = ARG_SIZE = 2`,
  `VAL_SIZE = RESPONSE_SIZE = 3`, `ARGS_NUMBER = 3`. Truncation and the
  "longer than the buffer" cases therefore happen with strings of 2–3
  characters.
- `unsigned long` is `ULongBits = 6` bits wide, so that the sum wraps at 64.
- WAMR is abstracted to whether a module instance exists.
  - `wasm_runtime_create_exec_env` can fail, which gives `RUNTIME_ERROR`.
  - `step_init` can fail, which gives `STEP_INIT_FAILED`.
  - `TEE_Malloc` can fail.
  - These are nondeterministic outcomes of the commands.
- The address-validation early returns of the native functions are not
  modelled. The guest passes only its static buffers, which always validate.

## 3. Runs

| Run | Config | Expect | What it shows |
|---|---|---|---|
| `cstring` | `MCCString.cfg` | pass | `s_atoul` equals positional decimal modulo 2^w on every string of ≤ 3 characters over `0 1 5 9 x`. `s_ultoa` of every 6-bit value is canonical and reads back to the value. |
| `proxy_single` | `MCProxy.cfg` | pass | One caller, no keep-alive, 3 invocations of create/add/query/delete on key `k` or `j`, with AOT files that load, fail to load, or are missing, over stored values `""`, `"99"`, `"x"`, with cancellation at any point, and with the TA instance killed at any point (`TaMayPanic = TRUE`). Checks `TypeOK`, `RequestsBelongToInvocation`, `PendingExcludesResponse`, `MemoryBounded` (the instance never holds more than its context and one invocation's pool and bytecode), `LedgerRefinement` (the implementation refines `Ledger`) and, under `FairSpec`, `InvocationsEnd` (every invocation ends with a response or a failure without the caller cancelling). |
| `proxy_concurrent` | `MCProxyConcurrent.cfg` | pass | Two callers at once, one invocation each (an `add` that loads or one that fails to load). Under weak fairness of the threads and of the caller's answers, every thread returns to `listen` (`ThreadsReturn`), through `BAD_STATE`/`TARGET_DEAD` failures, TA panics and cancellations. Whenever no thread is inside a call, the shared session is open, its heap is configured and `ctx.output_buffer` is allocated (`RelayReadyWhenIdle`), however the close/open/configure steps of two `restart_session`s interleave. |
| `keepalive_stale` | `MCProxyKeepAlive.cfg` | violation | With a kept-alive TA instance, a GET pending from a cancelled invocation coexists with the next invocation's state: `PendingExcludesResponse` fails. |
| `concurrent_crosstalk` | `MCProxyRace.cfg` | violation | Two unserialized invocations break `LedgerRefinement`. |
| `full_value` | `MCProxyFullValue.cfg` | violation | A stored `"999"` (`VAL_SIZE` characters) is dropped by the relay, so `create` overwrites it: `LedgerRefinement` fails. |
| `empty_key` | `MCProxyEmptyKey.cfg` | violation | `create` with key `""` answers `NO_RESPONSE`: `LedgerRefinement` fails. |
| `wrong_answer_kind` | `MCProxyWrongKind.cfg` | violation | A caller answers a GET with a PutStateResponse; the relay resumes with an empty value and the call succeeds: `LedgerRefinement` fails. |
| `output_buffer_uaf` | `MCProxyBuffer.cfg` | violation | Two callers: a thread sets up its call with the `ctx.output_buffer` another thread's `restart_session` has just freed: `OutputBufferLive` fails. |
| `double_free` | `MCProxyDoubleFree.cfg` | violation | Two threads restart the session at once and both free `ctx.output_buffer`: the action property `NoDoubleFree` fails. |
| `resume_outside_suspension` | `MCWasmTA.cfg` | violation | The TA under a host issuing commands in any order (query/add on one key, loadable or broken bytecode, heap size 0 or not, answers `""`/`"1"`), checked against `Dispatcher`: after `RUN_WASM` ends Done, `RESUME_WASM` runs `step_resume` again and the TA suspends on a new GetStateRequest. `DispatcherRefinement` fails in 5 states. |
| `get_arg_bound` | `MCNativeBridge.cfg` | violation | `cc_get_arg` for every index from -1 to `ARGS_NUMBER`, every `pending_type`, and slots empty or not: the last index reads past the array, and gives one character while a request is pending: `GetArgMatchesSpec` fails. |

**Refinement.** `LedgerRefinement` is `Abs!Spec` for
`Abs == INSTANCE Ledger WITH ...`:

- The abstract ledger is the caller's state with the writes of every
  invocation still in progress undone. The history variable `undo` records
  them.
- The abstract invocation in progress is the caller's request while it
  waits.
- The outcome is what the caller received.

An invocation therefore takes effect, atomically, when the caller gets its
response or its stream ends.

`DispatcherRefinement` (in `MCWasmTA`) is `Disp!Spec` for
`Disp == INSTANCE Dispatcher WITH phase <- TAPhase, op <- hop`. The phase is
Idle without an open session or a module instance. Otherwise it is the
`pending_type` of the session context, or Done when none is pending.

**Bounds.**

- Two keys, `k` and `j`, with requests on either, over every initial
  value of both. A request forwarded with the other key, stale or
  misrouted, is then visible to `RequestsBelongToInvocation` and
  `LedgerRefinement`.
- Three invocations let a call see the effect of an earlier one. They
  cover create then add, and a failed load followed by a good one.
- `TaHeapBlocks = 5` holds the context and two invocations' blocks, so
  with keep-alive the third `RUN_WASM` finds the heap full, and
  `MemoryBounded` (3 blocks) is exceeded before that.
- Two callers with one invocation each are enough to make the threads
  overlap in every order. This bound is still small enough for the
  liveness check.

## 4. Fairness

`FairSpec` assumes weak fairness of:

- each server thread (the gRPC sync server runs each stream on its own
  thread);
- the caller's answering and reading actions.

It assumes no fairness of `Invoke` or `Cancel`. A caller that never answers a
request would block `stream->Read` forever: the code has no timeout
(main.cpp:283). `ThreadsReturn` holds only for callers that answer or
disconnect.

`proxy_single` and `proxy_concurrent` both run `FairSpec`. In
`proxy_single`, `InvocationsEnd` states the same guarantee from the caller's
side: every call it starts gets its outcome. This holds only if the
chaincode's state machine finishes in finitely many GET/PUT round trips. A
query that retried its read while the value is empty would loop forever.

**Panics.** Only `proxy_single` enables `TaMayPanic`. In the other runs a
panic would only add failures. `RelayReadyWhenIdle` in `proxy_concurrent`
would fail at once, and rightly so: the relay notices a dead instance only
at the next call, which fails and restarts the session.

## 5. Findings

- **Keep-alive.** `RUN_WASM` never resets the pending request or the
  previous response (main.c:268). With a kept-alive TA instance they leak
  into the next invocation.
- **No lock.** Concurrent invocations share the TEE session without a lock
  (main.cpp:243).
- **Long stored values.** A stored value of `VAL_SIZE` or more characters
  is dropped instead of truncated (main.cpp:294).
- **Empty key.** `create` with an empty key never reaches `CREATE_AFTER_GET`
  and answers `NO_RESPONSE` (coffee_chaincode_wasm.c:71).
- **No protocol check.** After a GetStateRequest the relay takes
  `get_state_response().value()` of whatever message comes next
  (main.cpp:287). A wrong-kind answer becomes an empty value and the call
  succeeds; spec.md §4.5 requires `ProtocolViolation`.
- **Unfreed memory.** `RUN_WASM` never frees its pool and bytecode copy,
  nor the previous ones (main.c:271). Memory stays bounded (`MemoryBounded`
  in `proxy_single`) only because the relay's `restart_session` unloads the
  instance after every call. A kept-alive instance would grow until
  `TEE_Malloc` fails, against spec.md §4.4. The keep-alive flag is not in
  the repository, so this is not a run of its own.
- **Dangling output buffer.** `op.params[3]` keeps the `ctx.output_buffer`
  of the moment the call was set up (main.cpp:215) for `RUN_WASM` and every
  `RESUME_WASM`. Another thread's `restart_session` frees it, so the call
  passes freed memory to libteec.
- **Double free.** Two concurrent `restart_session`s free the same
  `ctx.output_buffer` (main.cpp:131). The same interleaving closes the
  session and finalizes the TEE context twice (main.cpp:122). The model's
  `CloseCall` skips the second close, but `NoDoubleFree` flags the
  interleaving itself.
- **Resume outside a suspension.** `RESUME_WASM` checks only that the
  session context and `sc->runtime` exist (main.c:321), never that a request
  is pending. After Done it runs `step_resume` again. The chaincode
  re-dispatches the `g_function` it kept (coffee_chaincode_wasm.c:161) and
  asks for state again. spec.md §4.4 says resume is only valid from a
  Suspended state. The relay's unlocked threads issue such a resume when one
  call ends under another.
- **Argument index.** `cc_get_arg` accepts `idx = ARGS_NUMBER - 1` and reads
  `arguments[ARGS_NUMBER]`, the bytes of `pending_type`
  (chaincode_native_functions.c:115); spec.md §4.3 says an out-of-range index
  gives 0. The coffee chaincode asks only for 0 and 1, but the TA runs any
  AOT file the caller names.

## 6. Not modelled

- **Logging and I/O.** Logging, `printf`/`EMSG`, the output capture buffer,
  the hashing of the bytecode, and `run_server`/`main`.
- **Memory inside a command.** `RUN_WASM` and `RESUME_WASM` are atomic, so
  a `restart_session` of another thread *during* a command (freeing the
  buffer libteec will copy back into) is not a separate interleaving; the
  dangling-buffer finding is reached between commands instead.
- **Dead code.** `TA_HashWasmBytecode`, `TA_ExecuteWamrRuntime` and
  `TA_TearDownWamrRuntime` (wasm.c) are never called.
- **Guest traps.** `call_step` counts an "out of bounds" or "null pointer"
  trap as success. The coffee chaincode raises no trap, so this path is not
  reached.
- **Import signatures.** The guest declares `cc_return_response` and
  `cc_log` `void`, but the TA registers them as `"(ii)i"`
  (chaincode_native_functions.c:310). A runtime that checks import
  signatures would leave them unlinked, and every final response would
  become `RUNTIME_ERROR`. Linking happens in WAMR, outside the repository, so
  the model takes every native as linked. The hazard list records it.
- **Unused natives.** `cc_log`, `debug_log` and the `env` `memset`,
  `memcpy`, `memmove` natives change no session state. The coffee chaincode
  never calls them: its `log_str` is empty, and it uses its own
  `s_memset`/`s_memcpy`. This is why the Native Bridge is only partly
  modelled.
- **WAMR internals.** `wasm_runtime_full_init`, load and instantiate are one
  success condition (`InitializeWamrRuntime`). Their outcomes depend on the
  runtime's pool allocator and loader, which are not in the repository. This
  is why the WAMR wrapper is only partly modelled.
- **Relay start-up failures.** `prepare_tee_session` calls `exit(1)` when a
  session cannot be opened; the TA's context allocation is taken to succeed.

## 7. Plan for further work

The modules were built bottom-up, in this order:

1. `CString`
2. `NativeBridge`
3. `Chaincode`
4. `WasmTA`
5. `Ledger`
6. `Proxy`

Each module extends the one before it. `Proxy` composes the TA with the
relay threads and the callers. `MCProxy` shows, by refinement, that the
composition implements `Ledger`. `Dispatcher` and `MCWasmTA` check the TA on
its own against the phases of spec.md §4.4.

Next steps:

- **Serialized relay.** A variant of `Proxy` with a mutex around the whole
  call, checked against `LedgerRefinement` with two callers. This shows that
  serialization, as spec.md §5 requires, is enough. (This models a fix, not
  the code, so it belongs beside the project rather than in it.)
- **Runs.** The project is at its limit of 12 runs. A new question has to
  replace a run or fold into a passing run's properties.

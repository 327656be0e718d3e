# TLA+ models of the atlchat IRC command layer

This directory holds TLA+ models of the code under `src/`, the TLC configurations that check them, and `PROJECT.json`. `PROJECT.json` lists the components, runs, mutants, the map from definitions to source lines, the findings and the hazards.

## 1. The system

`src/irc/commands.go` is the command layer of an IRC server. A connection reads a line from its peer and hands it to `ParseCommand`, which returns a command value or an error. The parts are:

| Part | Code | State and operations |
|---|---|---|
| Line tokenizer | `parseArg`, `parseLine` (72-96) | Pure. It peels space-separated arguments. A leading `:` makes the rest of the line one argument. It stops at the first empty argument and upper-cases the first argument as the verb. |
| Dispatcher | `parseCommandFuncs`, `ParseCommand` (26-40, 63-70) | A fixed map from 13 verbs to constructors. Unknown verbs become `UnknownCommand`. |
| Constructors | `New*Command` (100-530) | Arity checks (NICK and USER need exact counts, the others a minimum) and defaults for optional arguments. Comma lists go through `strings.Split`. JOIN pairs channels with keys and treats `0` as a sentinel. USER parses its mode with `ParseUint(_, 10, 8)`. |
| User MODE decoder | `stringToRunes`, `NewUserModeCommand` (415-469) | Concurrent. For each flag token a goroutine sends its runes over an unbuffered channel. The caller reads the sign, then ranges over the rest and writes into a slice preallocated from `RuneCountInString`. |
| Channel MODE stub | `NewChannelModeCommand`, `NewModeCommand` (434-481) | Keeps the channel only. The choice between the two forms uses `IsChannel`, which is not under `src/`. |
| Command base | `BaseCommand` (43-61) | `SetBase` binds the client. `Reply` does a blocking send on the client's reply channel. The client code is not in the repository, and neither it nor the spec says when the channel is drained; the model takes a writer that drains it whenever it holds a reply. |
| Container entrypoint | `src/unnamed/part_000` 124-149 | Generates `ircd.yaml` with a fresh oper password, then runs `mkcerts` and `exec`s ergo. Compose restarts it on failure. |
| Compose deployment | `src/compose.yaml` | The `atlchat` service: its data volume, the read-only bind mount of `ircd.yaml`, and the on-failure restart policy. |

### How the parts interact

The tokenizer feeds the dispatcher, which calls one constructor. `NewModeCommand` branches to the stub or to the decoder. The decoder is the only place in the layer where two threads run: the caller goroutine and one `stringToRunes` goroutine per token. They meet on a channel handoff.

### What is hard

- The decoder's handoffs and its early return. What happens to a goroutine whose channel is abandoned?
- Sizing a slice from one count (runes of the joined tokens) and filling it from another (runes decoded per token).
- Index edges: `args[0]` of an empty list, `keys[i]` past `len(channels)`, and a uint8 at 255 and past it.
- The tokenizer's stop at an empty argument, and what that does to an empty trailing parameter.

## 2. Modules

| Module | Models | Kind |
|---|---|---|
| `Utf8` | `utf8.DecodeRuneInString`, `RuneCountInString`, the decoding loop of `stringToRunes` | operators |
| `UserModeCommand` | `NewUserModeCommand` as a function of its flag tokens (`DecodeTokens`, `ChangesLen`); `SpecFlagChanges`, the reference from the grammar comment at 442 and spec sections 4.5 and 8, where a sign inside a token switches the sign | operators |
| `UserMode` | the call as an atomic step: `tokens`, `outcome`; action `Call` | abstract spec |
| `ModeDecoder` | the same call with its goroutines: decoder `pc`, `tok`, `size`, `changes`, `add`; goroutine states `gr[g]` (unborn, running, sending, closed) with the rest of their string and the rune on offer | detailed spec, refines `UserMode` |
| `Commands` | tokenizer, dispatcher and every constructor | operators |
| `Parser` | a connection parsing each received line (`Receive`); `SpecParse`, the spec's reference result per verb | state machine |
| `ReplySink` | the spec's reply path: a hook's replies enqueued on its connection in order, none lost, and the hook returning (`Accept`, `Reply`, `Finish`) | abstract spec |
| `CommandBase` | `ParseCommand` leaving the base unset, `SetBase`, the hook's `Reply` as a blocking send on the client's buffered channel; the channel and its writer from the spec | detailed spec, refines `ReplySink` |
| `Entrypoint` | the container script step by step (`Test`, `GenPass`, `Hash`, `MvCopy`, `MvDone`, `Run`), container `Crash` and on-failure `Restart`, over what compose's mounts leave at `/ircd/ircd.yaml` | state machine |
| `MCModeDecoder`, `MCParser` | the bounded input sets | MC modules |

In `ModeDecoder` each statement of the caller with an effect is one action:
- `MakeChanges` is the `make` at 444-448.
- `Spawn` is `stringToRunes(arg)`.
- `RecvSig` is `sig := <-modeChange` plus the sign check.
- `RangeRecv` and `RangeEnd` are the range loop.
- `LoopDone` is the final return.

The goroutine's loop body is `Send` (decode and offer a rune) and `Close`. An unbuffered send completes only jointly with a receive: the receiving action requires the goroutine to be in `sending` and moves it back to `running`. A receive on a closed channel yields the zero rune.

In `CommandBase` the refinement maps the spec's queue of a connection to what its writer has written followed by what is still in the channel, and the spec's running hook to the caller's `hook` state; `Parse` and `SetBase` are stuttering steps of the spec. `Reply` on a command whose base was never set (a nil client) moves the caller to `dead`: depending on `Client`, which is outside `src/`, `Replies()` panics or yields a nil channel whose send blocks for ever, and in both cases the hook never returns. The refinement maps `dead` to a hook that has not returned yet.

In `Entrypoint`, a step is a stretch of the script between two points where a crash leaves different persistent state: the log (the echoed password), `/ircd/ircd.yaml`, and nothing else, since the shell variables die with the container and `/tmp` is rewritten before it is read. `mv` from `/tmp` (container layer) to `/ircd` (a volume) crosses filesystems, so it is a copy (`MvCopy`, leaving an incomplete file) and an unlink (`MvDone`). `genpasswd` is taken to print the hash (its failure modes are ergo's, not in this repository, and the script does not check them); `ergo run` comes up on a complete config file and exits with an error on anything else.

A Go panic is modelled as the outcome `panic`. This covers `make` with a negative length, an index out of range, and `args[0]` of an empty slice.

## 3. Runs

| Run | Expect | Checks |
|---|---|---|
| `mode_decoder` | pass | `TypeOK`, `LeaksOnlyFailedToken` (at return, a goroutine is left blocked only on a failed call and only for the token it stopped at; starting every producer up front breaks it) and `ImplementsUserMode` (`UM!Spec` through `INSTANCE UserMode`) over every list of up to 2 well-formed tokens of up to 3 bytes from `{+, -, i, 0xC3, 0xA9}` |
| `mode_decoder_leak` | violation | `AllGoroutinesExit`: the flag token `i-` (`MODE n i-`) fails its sign check, and its goroutine blocks forever sending `-` |
| `mode_decoder_sign_switch` | violation | `ChangesFollowSpec`: the token `-+` gives one change, `+` removed, where the grammar comment and spec section 8 make `+` switch the sign and give none (likewise `+i-o` gives `i`, `-` and `o` all added, not `o` removed) |
| `mode_decoder_bytes` | violation | `NeverPanics`: tokens `\xC3` and `\xA9` give `make` length -1 |
| `parser` | pass | `TypeOK`, `ParsesAsSpecified` over every line built from 16 verb words (including `nick`, `join`, `FROB`) with bounded middle parameters and three trailing forms |
| `parser_blank_line` | violation | `NeverPanics`: an empty line panics at `args[0]` |
| `parser_join_extra_keys` | violation | `NeverPanics`: `JOIN k k,k` writes `keys[1]` of a slice of length 1 |
| `parser_empty_trailing` | violation | `ParsesAsSpecified`: `PRIVMSG #a :` is rejected for too few arguments |
| `reply_path` | pass | `TypeOK`, `RepliesFollowSink` (the safety part of `RS!Spec`: each step is a step of `ReplySink`), `HooksReturn` (each hook returns: `Reply` waits only on a drained channel of a bound client; a `SetBase` that writes to its receiver copy breaks it) with two connections, a one-slot channel, hooks of one or two replies |
| `entrypoint` | pass | `TypeOK`, `PasswordShownOpensOper`, `RecoversUnlessCopyInterrupted` with up to two crashes anywhere, on a fresh volume (a deployment without compose's bind mount) or a host config file |
| `entrypoint_copy_crash` | violation | `ServesEventually`: a crash during the copy of the config leaves a truncated file that every restart accepts and ergo rejects |
| `entrypoint_host_dir` | violation | `ServesEventually`: compose's read-only bind mount with `./ircd.yaml` missing on the host; the mv fails and the container restart-loops, printing a new password each time |

### Findings

The findings are detailed in `PROJECT.json`:
- the goroutine leak (commands.go:455);
- the preallocation panic on split UTF-8 (447; with `+\xC3` and `\xA9` the `make` succeeds and the write at 460 panics);
- the blank-line panic (94);
- the JOIN extra-key panic (287);
- the dropped empty trailing parameter (91; spec sections 8 and 4.1 disagree);
- a sign inside a flag token is recorded as a flag (459), where the grammar comment at 442 and spec section 8 (`+iw-o` gives `o` removed) switch the sign;
- the entrypoint's truncated config after a crash in `mv` (part_000:142), the restart loop under compose's read-only bind mount (compose.yaml:10). The truncated config needs `/ircd/ircd.yaml` to be absent at the first start, which is a deployment without compose.yaml's line 10.

### Bounds

- **Decoder:** the sign-switch run needs one token. 2 tokens are the least that show a goroutine blocked after an early return (the second token's goroutine) and a UTF-8 sequence split across tokens. 3 bytes per token give a two-byte rune after a sign and a token with two runes after its sign.
- **Parser:** middle parameters are chosen per verb to reach each rule:
  - arity below, at and above the limit (USER up to 5, MODE 3, others 2);
  - the JOIN `0` sentinel, repeated channels and key lists;
  - user and channel MODE targets (no token with a sign after its first byte: that rule is the `mode_decoder_sign_switch` run's);
  - a two-byte rune in a flag token;
  - USER modes `255` and `257` (257 tells a rejected numeral from one wrapped to a uint8, which 256 would not); the reference reads the numeral on its own (`SpecUserMode`), not through the code's `ParseUint8`;
  - the WHO `o` flag.

  The trailing forms are none, one containing a space, and one starting with `:`.

- **Reply path:** two connections show that replies never cross connections; a one-slot channel is full after one reply, so a hook of two replies must wait for the writer; three replies per connection let a second command's replies follow the first's.
- **Entrypoint:** two crashes reach every pair of crash points (one during generation, one after); three passwords cover every draw those allow. The violation runs give one crash and three restarts, enough to see the restart loop repeat.

### Fairness

`UserMode` has weak fairness on `Call`: a call that starts returns. `ModeDecoder` has weak fairness on the caller's actions and on each goroutine's `Send` and `Close`. Go's scheduler runs every runnable goroutine eventually, and a goroutine blocked on a send is not runnable, so only enabled steps are promised. `CHECK_DEADLOCK FALSE` is set on the decoder runs because the call terminates (`pc = "done"`) and a leaked goroutine stays blocked for good. That end state is where the real program stops.

`CommandBase` has weak fairness on the caller's steps after parsing and on the writer, which are goroutines the scheduler runs when they can; `Parse` has none, since a peer may send no more lines. A connection that has had `MaxTotal` replies takes no further command, which is why the run does not check deadlock. `ReplySink` has weak fairness on `Reply` and `Finish`: spec section 5 says no operation of the layer suspends, with the queue's backpressure left to the connection. `Entrypoint` has weak fairness on the script's steps (a running shell continues) and on `Restart` (the on-failure policy has no attempt limit); `Crash` has none. A container that serves, or whose bounded restarts are spent, takes no further step, so those runs do not check deadlock either.

## 4. Plan and what is not yet modelled

Later work, in order:
1. **Across lines:** the connection loop that repeats the decoder is outside `src/`; `LeaksOnlyFailedToken` bounds what one line leaks to one goroutine, so the growth is one goroutine per malformed `MODE` line.
2. **Rebinding:** a caller that calls `SetBase` again after dispatch (spec section 9). It needs a caller that is outside `src/`. A command left with a nil base is covered by `HooksReturn`.

These parts are not modelled:
- the `String()` formatters, which only format values for logs: they change no state, no code in `src/` reads them, and the spec names no form for them. (`ModeChange.String` formats a `Mode`, a rune, with `%s`, which `go vet` reports.)
- the `default.yaml` placeholder the entrypoint's awk replaces, which ships with the ergo image and is not in this repository;
- `compose.yaml`'s ports, placement, motd and certificate mounts, which have no operations;
- the `matterbridge` service: its behaviour is the third-party image's, its config `./matterbridge.toml` is not in the repository, and `src/README.md` says it does not work out of the box, so any model of it would be invented;
- how the client drains its reply channel and what happens when its socket fails: `Client` is outside `src/` and the spec leaves backpressure to the connection;
- the READMEs.

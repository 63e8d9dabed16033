# Verification of epassport_is

TLA+ models, TLC runs and TLAPS proofs about the e-passport inspection system in
this repository: `epassport_reader/` (the library that talks to the chip) and
`epassport_gui.py` (the application around it). Line numbers are those of the
modelled commit; `PROJECT.json` maps every definition to the lines it stands for.

The system has no test suite that runs a chip, and the interesting failures need
one: a lost exchange in the middle of a re-keying, a chip that takes the other
variant of a SELECT, a button pressed while a thread is at work. These are what
the models enumerate.

## 1. The system

```
 user -> Tk thread (buttons, callbacks) --starts--> worker threads (read, CA, TA, AA, DG3)
             |  shares _reader, flags, _trace            |
             v                                           v
        SessionTrace / report                      EPassportReader
                                                   read_all -> read_ef (loop)
                                                   authenticate, CA, TA, AA
                                                         |
                                                   SecureMessagingSession (keys, SSC)
                                                         |
                                                   CardAdapter.send -> PC/SC -> chip
```

| Part | State | Operations | What is hard | What makes it correct |
|---|---|---|---|---|
| Secure messaging (`sm.py`, `CardAdapter`) | keys and send sequence counter on both sides | wrap, unwrap, chained wrap, re-keying | lost, repeated, damaged or late messages; errors with and without an envelope; counter wrap-around | an answer belongs to its command; no counter value is used twice; both sides stay in step; once apart, always apart |
| Reading one file (`read_ef`, `_read_card_access_content`) | offset, buffer, guard | SELECT, READ BINARY loop | short answers, end-of-file conventions, size of the file at the limits of the offset | what is returned is the whole file, or the exceptions are known; the loop stops |
| Full read (`read_all`) | data read, errors; the chip's current directory | each file in turn, MF and back | two pairs of files share an identifier; any step fails | each name holds its own file; nothing goes missing silently |
| Access control (`authenticate`, CA, TA, AA) | session, retained CA key, `_eac_ta_done`; the chip's session, rights, imported certificates | BAC, PACE, hybrid, CA, TA, AA | refusals half-way, chips that differ, order of operations, retries | reader and chip hold what fits; TA signs what the chip checks |
| Passive authentication, access report (`verify_pa`, `_populate_report`) | verdict, groups read before and after TA | first verdict, verdict after TA, report | partial reads, verdict and trace made at different moments | verdict, trace and rows are true of the passport |
| Application (`epassport_gui.py`) | reader, flags, buttons, callback queue, threads, trace | read, four actions, refresh, exports | threads without locks over one session; callbacks that arrive late; a menu and a key that are never disabled | one thread per channel, flags of this passport, comes to rest |
| Session trace (`trace.py`) | stages, evidence, the export under way | begin_session, mark, record_evidence, the scores, to_dict | marks from several threads while the scores are taken outside the lock; threads that outlive their session | a label that some moment deserved; a counted success has its evidence; a stage shows its last outcome |
| MRZ history (`epassport_gui.py`) | list of 30, a file | load, remember, clear, save | a save torn by a crash or refused; a read refused | the list is the latest distinct MRZs since it was cleared |
| Encodings (`tlvs.py`, `crypto.py`) | none | TLV both ways, FCI size, check digits, MRZ information | forms of length and tag at their limits; short numbers, fillers, digits typed or not | what was encoded is read back; the key material is the document's |
| EF.SOD, security infos (`pa.py`, `cvc.py`, tables of `ca.py`, `pace.py`) | none | parse_sod, parse_chip_auth_data, parse_card_access | optional and nested fields told apart by place alone; bare and wrapped lists | the fields found are those the issuer wrote; key, suite, variant and curve go together |

## 2. The modules

Every module models whole handlers: an action contains all state changes of the
code it stands for, in the code's order where another actor can see the order.

### SecureMessaging, SecureChannel, MCSecureMessaging, SecureMessaging_proofs

The terminal's `SecureMessagingSession`, the chip's end (also in `sm.py`:
`unwrap_command`, `wrap_response`) and the link. Cryptography is symbolic: a MAC
verifies when key, counter and content are the same, so a message is the record
of key and counter it was made under. `term.ssc` is `ssc`, stepped in
`WrapCommand` when the command is wrapped, and in `UnwrapResponse` when an answer
verified. `NothingVerified` is a bare status word, a transmission that raises or a
MAC that does not match: nothing is stepped. `Verifies` is the card's check of a
command; the one in `sm.py` takes it over the unpadded header in a session of PACE
(line 280) where `_wrap_pace` pads it (line 216), so that it refuses every command of
such a session. `Unpadded` is the set of sessions with such a card, and the run has
one. The link may lose a command or an
answer, damage it, deliver an earlier envelope or hand the chip a command again.
`Authenticate` is a key agreement, `UpgradeSession` and `UpgradeFails` are the end
of Chip Authentication. `SecureChannel` is the abstract specification: exchanges
are executed at most once, in order, and answered only after that;
`SecureMessaging` is shown to implement it (`ChannelSpec`).

### ReadEf, ReadEf_proofs

One elementary file and the two loops that read one. A byte of the file is its
position. The chip is modelled with its conventions at the end of a file (no data, 6B00,
6282 with the data that is left, 6700, or padding for as long as it is asked) and its
reading of P1 (the high bit names a short EF identifier). `CompleteOnReturn` says
what is returned in every case: the whole file, unless the loop truncates it
(`Truncates`) or goes on behind what P1 and P2 can name (`Overruns`), and then still a
beginning of it. `WholeFileReturned` is what the comment at the loop promises; finding 2
is about it.

### ReadAll, MCReadAll, ReadAll_proofs

`read_all` over a chip with a current directory and file. `read_ef` is SELECT EF,
one step for the loop (ReadEf), and for EF.CardSecurity `_select_mf` before and
`_restore_lds1_context` after. The channel is reduced to "in step or not", which
is what SecureMessaging shows to matter.

### AccessControl, MCAccessControl, Inspection, AccessControl_proofs

`authenticate` (BAC, PACE with both directories, hybrid), `chip_authentication`,
`terminal_authentication`, `active_authentication`, one action per exchange. Keys,
challenges and public keys are fresh numbers. The chip may refuse any command for
its own reasons, and the link may lose any exchange. `Fails(done)` is what a
protected command that does not come to its end leaves behind. `Inspection` is the
abstract specification: the stage of access the chip grants goes up one at a time,
falls back to none at once, and the terminal believes itself at a stage only in
answer to the grant. `StagesInOrder` maps the chip's state (`Granted`) and the
reader's (`Believed`: session, retained CA key, `_eac_ta_done`) to it.

### PassiveAuth, MCPassiveAuth, PassiveAuth_proofs

When what is read, when `verify_pa` is run on it, what the trace keeps and what
the report concludes. A full read is one step, cut anywhere by the link, with
files refused anywhere by the chip. Hashes are data: which groups EF.SOD has a
hash of, which do not match, and whether the digest is one the code can compute
(`supported`; with any other every group read is a MISMATCH).

### SessionTrace, Lists, MrzHistory, Records, MCRecords, Records_proofs

`SessionTrace` is the trace as the thread of a read, the threads of actions and the Tk
thread use it. Several actions may be at work, since the handlers check only the
reader and the flags, and a read may begin under them: their threads then mark the
trace of the session after theirs. `_trace_fail_running` is two steps for each stage,
the look without the lock and the mark. There is one action per mark (each mark holds
the lock), and the export in the steps between which other threads can mark: evidence
copied from the reader, the trace copied under the lock, the functional score, the
security score. `MrzHistory` is the list and its file, with a save in two steps,
either of which the system may refuse and a crash may separate, and a start at which
it may refuse to read the file. `Lists` is the list comprehension with a condition
that the history and the parsers use, defined by the places it takes. `Records`
composes the two: the Tk thread does one thing at a time, `Display` remembers the MRZ
of a passport shown, `Crash` and `StartUp` restart the application on what is on the
disk.

### Tlv, Sod, SecurityInfos, MrzInfo, Encodings, MCEncodings, Encodings_proofs

The parsers as operators on byte strings (`Tlv`, `MrzInfo`) and on trees of objects
(`Sod`, `SecurityInfos`; OIDs and keys are names, since only their identity matters
to the choices the parsers make). `Signer`, `SignerOf` and `ParseSod` go by place and
order as the code does; `ChipAuthSetup` and `PaceSetup` are what the reader and the
application make of what was parsed. `Encodings` builds each input from a description
of what the issuer meant (`SodOf`, `Dg14Of`, `FciOf`, ...), and the properties compare
the parser's answer with the description. What a description may be is a named
assumption on a constant (`ObjectsAssumption`, `SodAssumption`, ...): objects of any
depth with tags and values of bytes and fewer than 65536 bytes of contents, the
largest length `tlv` can write; any number of groups, signers and infos. `MCEncodings`
gives the bounded families on which TLC evaluates these assumptions and checks the
properties.

### EpassportGui, EpassportGui_proofs

The Tk thread with its queue of `root.after` callbacks, a thread per read, a thread
per action, and what the user may do: any handler that its button, the Card menu or
the Return key reaches, whenever the checks in the handler let it through. The menu
and the key are always enabled, so `_set_buttons_busy` keeps no one from running two
actions at once or from beginning a read under an action. What that breaks is
stated with the history variable `orderly`: the user has so far pressed enabled
buttons only (or what they stand for), an action and Refresh only with nothing at
work, and not the debug export of EF files. `ChannelOfOneThread`, `FlagsMatchChip`,
`TraceOfOneSession` and `ReportOfLiveSession` hold up to the first disorderly press;
`OneRead`, `NoConnectionLeft`, `NoStageLeftRunning` and `ReadyAgain` whatever is
pressed. Coverage reports may be exported at any time: `Report` is what one shows, also
during a read and after one that failed.

## 3. The runs

Bounds are constants of the configurations. "States" are distinct states.

| Run | States | What it shows |
|---|---|---|
| `channel` | 173 k | Four exchanges, two faults, three kinds of command, the first key's counter starting two below the wrap-around, one session whose card leaves the header unpadded: all channel properties and the refinement to SecureChannel |
| `select_skips_unwrap` | violation | see finding 1 |
| `read_ef` | 18 k | Both loops, files of 0 to 12 bytes in chunks of 3, P1 changing meaning at 8; size given exactly, too large or not at all; five ways to end a file: what is returned, and that the guards stop the loop |
| `read_6282` | violation | see finding 2 |
| `read_all` | 82 k | Any subset of six files, both variants of each SELECT, one lost exchange anywhere: right file, all accounted for, full read, end |
| `access_control` | 423 k | Five operations in any order, three protocols, AES and 3DES, four kinds of chip, both certificate transports, two lost exchanges; the refinement to Inspection |
| `passive_auth` | 230 k | Any files, hashes and altered groups of three groups, a digest the code knows or not, one lost exchange and one unfounded refusal |
| `gui` | 1.3 M | One or two reads, up to three actions, by button, menu or key, Refresh and the debug export: all properties of EpassportGui, those of a session up to the first disorderly press |
| `gui_act_early` | violation | see finding 3 |
| `records` | 3.5 M | One session under an export with three actions in turn, or with two at once; two sessions with two actions that may outlive the first; two sessions with a report and an action; three reads over three starts with a history of two: labels, evidence, outcomes, history |
| `encodings` | 18 k | Every input of the families in MCEncodings, one call at a time |
| `signed_attrs` | violation | see finding 4 |

Why the bounds are enough. The channel: a hazard needs a fault, the exchange it hits,
a later exchange that meets the consequence and a re-keying in between; four exchanges
and two faults hold every such combination, and the theorems of section 5 remove the
bounds. `SscMod` = 16 is above twice the steps a side can make, as 256^8 is in
practice. A file: sizes below, at and above one, two and three chunks, and below, at
and above the limit of P1 (8 for 32768), with and without a chunk across it;
`MaxReads` = 10 is above what any file of these needs in whole chunks and below what
one byte at a time or padding needs, so that both guards cut in. `read_all`: two data
groups, since each is read like the next, and a lost exchange ends the channel, so a
second one adds nothing. `access_control`: CA, TA, CA, TA after an authentication is
the longest order in which old material of one operation can meet a later one;
certificates of exactly two blocks, one and a half and a half. `passive_auth`: an
ordinary group and the two the code names. The application: overlap needs two sessions
and two threads besides the Tk thread; Read DG3 needs Chip and Terminal Authentication
before it, three actions of one session. `records`: a label is wrong only if marks
fall between the two scores, which one export and the marks of a read and two actions
at once give; evidence of another session, or an action that outlives its own, needs
two sessions; the history needs one MRZ more than it keeps (`Cap` = 2 for 30), a
repeated one, and a start after a torn save. `encodings`: lengths on both sides of
127/128 and 255/256, tags of one, two and three bytes, definite and indefinite values
in each other; every combination of optional fields of EF.SOD with signed attributes
on both sides of 127/128 and 128/129; lists of up to two infos around a key, and
document numbers of every length from one to nine.

`CHECK_DEADLOCK FALSE` is set where the system stops when its work or a bound is
used up; PassiveAuth, whose report can be exported for ever, is checked for
deadlock.

### Fairness

ReadAll is straight-line code in one thread that no one waits for: `WF_vars(Next)`.
ReadEf has none: that its loops stop is a bound on the commands sent, an invariant
(`StopsInTime`). In EpassportGui the program as a whole gets weak fairness
(`WF_vars(Program)`): of the threads the operating system schedules and the Tk event
loop, some one with something to do gets on with it. Each of them ends after finitely
many steps, so that this is enough; the user gets none. That card I/O returns is an
assumption (PC/SC has no time-out in this code). Safety models have no fairness.

## 4. Findings

Each has a run that TLC refutes with a trace.

1. `_select_emrtd_sm` drops an error envelope without unwrapping it; from then on
   the counters are apart (`reader.py:260` against `reader.py:501-503`). Run
   `select_skips_unwrap`.
2. `read_ef` breaks off on 6282 before it keeps the data that came with it, so that
   a chip which answers a read across the end with the last bytes and this warning has
   its file cut short (`reader.py:832` against 14-16). Run `read_6282`.
3. The action buttons are enabled while `read_all` is using the session
   (`epassport_gui.py:857` against the flow in `README.md:68-73`). Run
   `gui_act_early`.
4. `_parse_signer_info` rebuilds the SET of signed attributes from the last byte of
   its length. Attributes of fewer than 128 bytes have no other; where the byte is 128
   (128, 384, 640 bytes) it reads as an indefinite length, which happens to reach to
   the end. Attributes of any other length (129 bytes in the trace) do not parse, and
   hashes in them are not found (`pa.py:197` against `pa.py:3-5`); from 128 bytes on
   `signed_attrs_raw` is not what was signed either. Run `signed_attrs`.

### Met, without a run

Other disagreements between the code and what it says of itself, or what one would
expect of it. Where a property names its exception, dropping that from the property
shows the case.

| Where | What | How to see it |
|---|---|---|
| `epassport_gui.py:149-162`, 549, 633 against 891-899 | the Card menu and the Return key are not disabled with the buttons, and Refresh enables Read passport: two actions may share a session, and a read may begin under an action, whose thread then sets the flag of the next passport (933) and marks its trace (934) | `ChannelOfOneThread`, `FlagsMatchChip`, `TraceOfOneSession` without `orderly` |
| `epassport_gui.py:1640-1642` | a read that fails finds the stage of an action of the session before running and marks it failed, perhaps after it ended well | `OutcomeKept` without its last disjunct |
| `epassport_gui.py:1285-1286` | a start at which the history file cannot be read begins with an empty history, and the next save puts that in the file's place | `HistoryKept` with `log' = log` in that case of `Start` |
| `reader.py:406` against `ca.py:66`, 166-167 | after PACE and a Chip Authentication with 3DES, Terminal Authentication signs the document number in place of the PACE key | `SignatureFits` without its second disjunct |
| `reader.py:826` | a file of more than 32767 bytes is continued with another file's bytes or ends early | `CompleteOnReturn` without `Overruns` |
| `reader.py:705-708` | a chip that answers 6700 to an Le past the end has EF.CardAccess cut short | `CompleteOnReturn` with `Truncates` for 6282 only |
| `reader.py:945` against 941-944 | with both restoring SELECTs refused, EF.CVCA is filled from EF.CardAccess | `ReadAll.cfg` with `Chips <- MCStuckChips` |
| `sm.py:280` against 216-218 | `_unwrap_command_pace` takes its MAC over the unpadded header, `_wrap_pace` over the padded one, so it refuses every command of a PACE session | `SyncedCommandVerifies` without its exception `Unpadded` |
| `epassport_gui.py:1829` against `reader.py:517-521` | the export of EF files ends the chip's session while `_ca_done` and `_ta_done` stay set, and may run beside an action | `FlagsMatchChip`, `ChannelOfOneThread` with an `ExportEfs` that leaves `orderly` alone |
| `epassport_gui.py:1685` against 1676 | a report exported during a read, or after one that failed, has the data groups of the passport before | `ReportOfLiveSession` without `Displayed` |
| `pa.py:84-88`, 372-373 against 332-335 | with a digest the code cannot compute every group read counts as a MISMATCH and the verdict is FAIL with nothing altered | `VerdictTrue` without `~doc.supported` |
| `reader.py:313-315` | on chips that end their session at a command in the clear, the BAC session kept after a failed PACE is dead, as is any session after Active Authentication's first try | `ChannelUsable` without `setup.tolerant` |
| `pa.py:387-395` against 332-335 | the docstring excludes from the verdict *missing* groups that need EAC; the code excludes them when read and altered too | by reading; `VerdictTrue` says "those needing EAC apart" |
| `pa.py:392-395` against 7-12 | the verdict does not look at the signature, the second of the two checks listed; the trace's stage is marked ok from the verdict | by reading |
| `epassport_gui.py:862` and 1049 | the trace's stage is not marked again when the verdict changes after Terminal Authentication | `VerdictsAgree` without its conclusion |
| `epassport_gui.py:1063` against `trace.py:40` | `eac_dg_read` is marked ok although DG3 and DG4 both failed | by reading |
| `epassport_gui.py:798-814` against 713 | the early return for missing credentials leaves its connection to the garbage collector, so a second handle may exist for a while | by reading |
| `epassport_gui.py:848` | PACE evidence is missing in a report after HYBRID: `_capture_pace_evidence` is not called | by reading |
| `reader.py:444` | `link_certificate` is true of every chain of two certificates, a DV and an IS certificate too | by reading |
| `reader.py:412` against `crypto.py:188` | a document number shorter than nine characters is signed without filler and check digit | by reading |
| `reader.py:394` | the terminal's key is cut to 32 bytes of X on longer curves too | by reading |
| `trace.py:261` against the class's "Thread-safe accumulator" | the scores are taken from the live trace after the copy, so the stages and the scores of one report may be of different moments | `ReadinessEarned` with the stages of the copy in place of `export.deserved` |
| `cvc.py:306` against 299-300 | a bare list of one key in EF.DG14 is taken for the wrapper, and its key is not found | `KeyFound` without its first disjunct |
| `cvc.py:367` against 285-286 | the key id that would match a suite to a key is read and not used | by reading |
| `ca.py:125` | a key reference of 128 or more is sent as zero | by reading |
| `ca.py:57-71` | a suite that is not in the table runs as CMAC-256 | `SuiteFor` |
| `cvc.py:193-213` | explicit curve parameters and parameter ids that are not implemented run on P-256; the 65-byte points this looks for are never those of a P-384 or P-521 key | `AlgParams`, `CurveOf` |
| `epassport_gui.py:831` | the first PACEInfo by ECDH is taken, also with a mapping or cipher that `do_pace` does not implement | `PaceSetup` |
| `crypto.py:179` | a number shorter than nine characters typed with its check digit is taken as a longer number | `Typed` with `Checked(n)` |
| `epassport_gui.py:1184` | fillers inside a document number are lost | by reading |
| `dgs.py:149-155` | an issuing state of one letter is shown with fillers of its neighbours | by reading |
| `pa.py:105` against `tlvs.py:37-39` | an eContent that is a constructed OCTET STRING (24 80) is not parsed, although indefinite lengths are | by reading |
| `pa.py:296-301` | the branch for an eContent that is a bare SEQUENCE never succeeds | by reading |
| `pa.py` signer's OID | a signature named by rsaEncryption is reported as an unavailable algorithm | by reading |

## 5. What is proved

TLAPS checks these for every value of the constants.

**SecureMessaging_proofs.** Assumptions: `CountersAssumption` (a side makes fewer
steps than the counter has values) and `OpsAssumption`. The properties are not
inductive: that no counter value is used twice says nothing of values still to
come. `Inv` adds how far each side's counter has come from where its key started
(`IncDistance`: a step adds one), that all a side has used lies at or behind it,
that keys are numbered upwards, and that an envelope answers a command under the
next counter value. One lemma per group of actions shows that `Inv` is kept.
From it follow `AnswersAuthentic`, `CountersUnique`, `ExecutionUnique`,
`ImplementsChannel` (step by step, to a step of SecureChannel or a stutter) and
`OutOfStepStays`. `StaysInStep` and `SyncedVerifies` need one condition besides, that every
answer is unwrapped (`SkipsUnwrap = {}`), which the code keeps everywhere but in the line
of finding 1. `SyncedVerifies` holds of every card, padding the header or not: on a
channel in step a command is refused only in a session of `Unpadded`. `TypeCorrect` is
the type invariant.

**ReadEf_proofs.** `WholeFileOrNone`, `AlwaysStopsInTime` and `TypeCorrect`, for every size
of file, every chunk size, every limit and every chip of `ChipAnswers`, with no
assumption but the types of the constants. The inductive invariant `Prefix`: the buffer
begins with the file as far as the loop has come and the file can be addressed, is longer
than the file only in a loop that overruns, and what has been returned is acceptable. The
lemma `Answers` takes the chip apart, one fact for each way it may answer below the
limit of P1. `Guarded` is the invariant behind `AlwaysStopsInTime`.

**ReadAll_proofs.** `RightFileAlways` and `AllAccountedAlways`, for every list of data
groups, every set of chips and any number of lost exchanges, under `Restorable`: each
chip accepts some variant of the SELECT that leads back to the application. The
inductive invariant `Located` adds where the chip stands in each phase of `read_ef`
as long as the counters are in step: only then does an identifier find the file
meant, and when they are not, nothing is accepted at all. `FullReadAlways` adds
`Reachable` (a chip with EF.CardSecurity accepts some variant of the SELECT of the
master file); its invariant `Caught` follows a file that the chip has from SELECT to
the place where it is kept.

**EpassportGui_proofs.** `ReadsApart` and `NoStageStays`, for any number of reads and
actions and whatever the user presses; the only assumption is `UserAssumption`, that
these are natural numbers and bound the runs. `OneRead` follows from `Guarded`: a read
under way has `_reading` set and is the last one begun, so a button enabled too early
(Refresh, the end of an action) finds the flag. `NoStageLeftRunning` speaks only of states
at rest; the inductive `Attended` says for every state that a stage that shows "running"
has a thread that will yet mark it, and needs `Guarded` and the types of what the
threads share (`Typed`).

The loop of `_trace_fail_running` looks at a stage and marks it in two steps, so that
another thread may have marked it in between: `Scanning` says where a failing read
stands in it.

`NoneLeft`, again whatever is pressed: `Connected` says of every state that an open
connection has a read under way, is the reader at hand, or is about to be let go with a
failure message that is posted; `Keeping`, that a reader is kept once, by the read in
progress, which until then finds none. The other four are about the time up to the
first disorderly press, and `SessionAlways` is their invariant, `orderly => Session`: a
step of an orderly user finds `Session` and keeps it, and no step makes a disorderly user
orderly. Each of the four fails after some disorderly press (section 4), so the
condition cannot be dropped. `Session` has `Alone`: as long as the buttons are enabled
no thread is at work. What makes it inductive is the order of the queue,
`Followed`: callbacks run first in, first out, and the one that enables the buttons is
posted last, behind what displays the passport and what keeps the reader (`Ordered`,
`Shown`); `Earned` ties the flags, the trace and the authorization at the chip to the
same session. From these follow `OneThread`, `FlagsTrue`, `TraceTrue` and
`ReportTrue`, the last with a failed read's report and one made during a read.

**AccessControl_proofs.** For every set of protocols, suites, chips and certificate
chains, any number of operations and lost exchanges: `UsableAlways`, `SignedFits`,
`ChainArrives`, `RecordedTruly`, `OneTry`, and `InspectionKept`, the refinement to
Inspection. None of the properties is inductive: that the signature fits at the end
says nothing of the steps before it. `Inv` has four parts. `Typed` has, besides types,
that every key in use is one already drawn, so that a fresh one is new. `InOrder`
is where an operation may stand: no CA key, no authorization and no mark of either
while an authentication is under way, and a CA key whenever Terminal Authentication
is. `Matching` says that reader and chip hold the same (the PACE key, the CA key, the
authorization) while they share a session, and that without a lost exchange a
tolerant chip's session is always shared. `Progress` is how far the chip has come in
the import of the chain for each point the reader is at. A property follows from one
or two of them; each needs the others to be kept.

**PassiveAuth_proofs.** For any documents, faults of the card and refusals of the
chip: `VerdictAlwaysTrue`, `VerdictsAgreeAlways`, `GateAlwaysReported`. A verdict is about
what was read when it was made, and a later read may miss what an earlier one had, so
that `VerdictTrue` alone does not survive a step. `Reading` says for each step what has
been read so far and that nothing was read that the chip does not give; `Opened`, that
an authorized terminal had a channel that held over the first read; `Judgement`, what
each verdict was made on.

**Records_proofs.** For any number of sessions, actions, exports, restarts and
crashes: `ReportsBacked`, `OutcomesKept` and `LabelEarned`. `OfSession`: the evidence
in the trace, and in the copy an export works on, is of the session, and the copy is
still what the trace has when the scores are computed, although the lock is released
in between. `Attending`: a stage that shows something else than its outcome shows that
a thread is at work on it, or that it is one of an action which outlived its session
and that a failing read has marked since. While a read starts, every action at work
was pressed in an earlier session, as a reader is kept only at the end of that; so
what `_trace_fail_running` finds running is its own authentication, which no other
thread marks, or the stage of such an action, and `OutcomesKept` grants that outcome
and no other. `LabelEarned` is about the two scores, which other threads' marks may
separate: `Scoring` says that after a functional score of "advanced" for a session
that does not deserve the label yet, some security stage is short of its evidence,
which no thread adds, or has not succeeded while all stages that no action marks
(`Steady`) have. Then a second score that counts all security stages comes only after
a moment at which the session deserved both, however many actions are at work. The
scores are cardinalities of sets of stages, so the lemmas under it are about those.

`HistoryOfReads`: for any length of the list, any number of reads, starts, crashes,
refused or torn saves and refused reads of the file, `HistoryKept`. The reference
`IsLatest` is stated by the places of the log, without a fold, so that no induction
over it is needed: `NewerStays` says that appending to the log keeps the order of what
it had, `Remembering` that putting the MRZ read in front, without its older entry, and
cutting the list keeps `IsLatest`. `Kept` is the inductive invariant: while the
application runs the list is the latest by the log, and when no save is under way or
was refused, what a start would load from the file is too. `BrokenParsesNot` and
`OfItself` are about a start: a torn file is told from a list, and a list found after
a spoiled save stands for itself.

**Encodings_proofs.** For every description of a file, not only for the families of
MCEncodings: `AlwaysReadBack`, `SodAlwaysRead`, `KeyAlwaysFound`, `PaceAlwaysAsListed`
and `CredentialsAlwaysFit`, which are all the properties of the run `encodings`. The
invariant of the specification is small (`CallsMade`: a call is made on a
description); the work is in lemmas about operators, in this order:

- lists: what `Picked` returns of a list written out, appended to or joined; what
  `FlattenSeq` returns of a list of lists, and its first element; the first of several
  places at which something holds.
- trees: `Tagged`, `FirstValue` and `Unwrapped` on each kind of node the descriptions
  build; from these, field by field, `SodAlwaysRead` (the hash table of any number of
  distinct groups, the first of any number of signers), `KeyAlwaysFound` (the key
  among any other infos, with a level of wrapping more or less) and
  `PaceAlwaysAsListed`.
- numbers: fillers, check digits and the second line of the MRZ, for a number of each
  length from one to nine: `CredentialsAlwaysFit`.
- bytes: a length below 65536 is read back from `LengthBytes`, whose three forms are
  three cases; a tag of any number of bytes ends where `TagEnd` looks. `ReadAt` reads an
  object where it stands in a longer string, if the contents of an indefinite one are
  read: the search for its end mark goes over a row of objects one by one
  and is not misled by zeros inside of them. An object holds shorter ones, so this is an
  induction over the length of an object. From it follow the list of the contents,
  the refusal of an encoding that lacks its last byte, and the size in a SELECT answer.

The induction theorems of the library take an operator as a parameter, which the
installed provers cannot instantiate. Where a fact holds of every length the proofs
therefore suppose the least length that breaks it (lemma `Least`) and show a shorter
one, which is first-order. The recursive functions of `Tlv` are shown to exist in the
same way, a solution up to one place being extended to the next (`BigNext`, `EndsNext`,
`ListNext`); RECURSIVE operators are not used.

### Only model-checked

- All liveness (`Terminates` of ReadAll, `ReadyAgain`): the prover does not
  handle fairness and ENABLED.
- The properties of the four violation runs are refuted by TLC; there is nothing to
  prove about them but the conditions under which they hold, which the theorems above
  state.

Every safety invariant and action property that a passing run checks is stated by a
theorem. The type invariants `TypeOK` of the modules for which section 5 names none
are kept for the reader.

## 6. Not modelled, and the plan

Not modelled: the arithmetic of elliptic curves, ciphers and hashes (symbolic); the
parsers whose results are only shown or exported (EF.CardSecurity, EF.CVCA, card
verifiable certificates beyond their order, data groups 1 to 16 and images: in the
models a parse error is a step that may raise); evidence fingerprints and the
negative matrix of the trace, which nothing reads back; window layout and rendering;
packaging and the scripts that generate test material. Card I/O that never returns
and an unplugged reader are not modelled: the code has no handler for either.

Order in which the project was planned, and what is left:

1. SecureMessaging with SecureChannel, proofs of all its properties: done.
2. ReadEf, ReadAll and the proofs of their safety properties: done.
3. EpassportGui and the proofs of all its safety properties: done.
4. AccessControl with Inspection, their proofs: done.
5. PassiveAuth and its proofs: done.
6. SessionTrace, MrzHistory and Records and their proofs: done.
7. Encodings and parsers, and the proofs of all their properties: done. Left:
   EF.CardSecurity and EF.CVCA, when the code uses what it parses from them.
8. Left to prove: the theorems of AccessControl, EpassportGui and ReadAll speak of one
   component each; that the channel which ReadAll and AccessControl assume ("in step or
   not") is implemented by SecureMessaging is argued in section 2 and not a refinement.

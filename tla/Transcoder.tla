----------------------------- MODULE Transcoder -----------------------------
(***************************************************************************)
(* One ffmpeg process per transcoded stream (streaming/transcoder.py and   *)
(* the generator of streaming/streamer.py 300-308): the generator that     *)
(* reads its output, the task that drains its stderr, the reaper, and the  *)
(* client that may hang up at any moment, wherever the generator stands.   *)
(* Pipes hold one unit, a unit of stderr must be written before the last   *)
(* of the audio, and ffmpeg may ignore SIGTERM or, stuck in the kernel,    *)
(* even SIGKILL.                                                           *)
(***************************************************************************)
EXTENDS Naturals, FiniteSets

CONSTANTS Streams,
          Chunks,       \* bound: units of audio of a track
          ErrorLines    \* bound: units ffmpeg writes to stderr

ASSUME TranscoderAssumption == Chunks \in Nat /\ ErrorLines \in Nat

VARIABLE ts             \* per stream: generator, process, tasks and pipes

(* gen: where the generator stands. "parked" is at a yield, the client     *)
(* gone, until the event loop finalises it. held: _proc is not None.       *)
Slot ==
    [gen : {"closed", "spawning", "reading", "yielded", "parked"}, held : BOOLEAN,
     proc : {"none", "running", "exited"}, signal : {"none", "term", "kill"},
     temper : {"obedient", "stubborn", "stuck"},
     left : 0..Chunks, errors : 0..ErrorLines, out : 0..1, err : 0..1,
     drain : {"none", "on", "done"},
     reaper : {"none", "asked", "killing", "done", "gave up"}, reapers : 0..2]

Closed == [gen |-> "closed", held |-> FALSE, proc |-> "none", signal |-> "none",
           temper |-> "obedient", left |-> 0, errors |-> 0, out |-> 0, err |-> 0,
           drain |-> "none", reaper |-> "none", reapers |-> 0]

TranscoderTypeOK == ts \in [Streams -> Slot]

TranscoderInit == ts = [s \in Streams |-> Closed]

Running(s) == ts[s].proc = "running"
Becomes(s, slot) == ts' = [ts EXCEPT ![s] = slot]

-----------------------------------------------------------------------------
(* SIGTERM now, everything that waits in a task of its own; nothing when   *)
(* it has been done before.                                                *)
_terminate(t) ==
    IF ~t.held THEN t
    ELSE [t EXCEPT !.held = FALSE,
                   !.signal = IF t.proc = "running" THEN "term" ELSE @,
                   !.reaper = "asked", !.reapers = @ + 1]

Left_Unsignalled(t) == [t EXCEPT !.gen = "closed"]  \* mutant: no finally
(* Leaving the loop runs the finally of iter_chunks, then __aexit__.       *)
Left(t) == [_terminate(_terminate(t)) EXCEPT !.gen = "closed"]

(* The response is iterated for the first time.                            *)
Open(s) ==
    /\ ts[s] = Closed
    /\ Becomes(s, [Closed EXCEPT !.gen = "spawning"])

Started_Undrained(temper) ==        \* mutant: nobody reads stderr
    [Closed EXCEPT !.gen = "reading", !.held = TRUE, !.proc = "running",
                   !.temper = temper, !.left = Chunks, !.errors = ErrorLines]
Started(temper) ==
    [Closed EXCEPT !.gen = "reading", !.held = TRUE, !.proc = "running",
                   !.temper = temper, !.left = Chunks, !.errors = ErrorLines,
                   !.drain = "on"]

(* __aenter__. A spawn that fails ends the body; one that is cancelled     *)
(* leaves no process (asyncio).                                            *)
Spawn(s) ==
    /\ ts[s].gen = "spawning"
    /\ \/ \E temper \in {"obedient", "stubborn", "stuck"} : Becomes(s, Started(temper))
       \/ Becomes(s, Closed)

-----------------------------------------------------------------------------
(* ffmpeg.                                                                 *)

WriteAudio(s) ==
    /\ Running(s) /\ ts[s].left > 0 /\ ts[s].out = 0
    /\ ts[s].left = 1 => ts[s].errors = 0
    /\ Becomes(s, [ts[s] EXCEPT !.left = @ - 1, !.out = 1])

WriteError(s) ==
    /\ Running(s) /\ ts[s].errors > 0 /\ ts[s].err = 0
    /\ Becomes(s, [ts[s] EXCEPT !.errors = @ - 1, !.err = 1])

Exit(s) ==
    /\ Running(s) /\ ts[s].left = 0 /\ ts[s].errors = 0
    /\ Becomes(s, [ts[s] EXCEPT !.proc = "exited"])

Crash(s) ==
    /\ Running(s)
    /\ Becomes(s, [ts[s] EXCEPT !.proc = "exited"])

Signalled(s) ==
    \/ ts[s].signal = "term" /\ ts[s].temper = "obedient"
    \/ ts[s].signal = "kill" /\ ts[s].temper # "stuck"

Die(s) ==
    /\ Running(s) /\ Signalled(s)
    /\ Becomes(s, [ts[s] EXCEPT !.proc = "exited"])

-----------------------------------------------------------------------------
(* The generator.                                                          *)

Read(s) ==
    /\ ts[s].gen = "reading" /\ ts[s].out = 1
    /\ Becomes(s, [ts[s] EXCEPT !.out = 0, !.gen = "yielded"])

ReadEnd(s) ==
    /\ ts[s].gen = "reading" /\ ts[s].out = 0 /\ ts[s].proc = "exited"
    /\ Becomes(s, Left(ts[s]))

Send(s) ==
    /\ ts[s].gen = "yielded"
    /\ Becomes(s, [ts[s] EXCEPT !.gen = "reading"])

(* The client hangs up: the task is cancelled where it waits, which is     *)
(* inside the generator or in the send of what it yielded.                 *)
Disconnect(s) ==
    \/ ts[s].gen = "spawning" /\ Becomes(s, Closed)
    \/ ts[s].gen = "reading" /\ Becomes(s, Left(ts[s]))
    \/ ts[s].gen = "yielded" /\ Becomes(s, [ts[s] EXCEPT !.gen = "parked"])

Finalise(s) ==
    /\ ts[s].gen = "parked"
    /\ Becomes(s, Left(ts[s]))

-----------------------------------------------------------------------------
(* _drain_stderr and _reap. Once _terminate has let go of the process the  *)
(* next turn of the loop finds none, and the task ends with an exception   *)
(* that is logged.                                                         *)

Drain(s) ==
    /\ ts[s].drain = "on"
    /\ \/ ts[s].err = 1
          /\ Becomes(s, [ts[s] EXCEPT !.err = 0,
                                      !.drain = IF ts[s].held THEN "on" ELSE "done"])
       \/ ts[s].err = 0 /\ ts[s].proc = "exited"
          /\ Becomes(s, [ts[s] EXCEPT !.drain = "done"])

Reap(s) ==
    /\ ts[s].reaper \in {"asked", "killing"} /\ ts[s].proc = "exited"
    /\ Becomes(s, [ts[s] EXCEPT !.reaper = "done", !.drain = "done"])

(* After a second, SIGKILL.                                                *)
AfterTerm(t) == [t EXCEPT !.reaper = "killing", !.signal = "kill"]

ReapTimeout(s) ==
    /\ Running(s)
    /\ \/ ts[s].reaper = "asked" /\ Becomes(s, AfterTerm(ts[s]))
       \/ ts[s].reaper = "killing" /\ Becomes(s, [ts[s] EXCEPT !.reaper = "gave up"])

(* A process that has exited, been waited for and left no task is gone.    *)
Gone(s) ==
    /\ ts[s].gen = "closed" /\ ts[s].proc = "exited"
    /\ ts[s].reaper \in {"done", "gave up"} /\ ts[s].drain # "on"
    /\ Becomes(s, Closed)

Ffmpeg(s) == WriteAudio(s) \/ WriteError(s) \/ Exit(s) \/ Die(s)
Loop(s) == Spawn(s) \/ Read(s) \/ ReadEnd(s) \/ Finalise(s)

TranscoderNext ==
    \E s \in Streams :
        \/ Open(s) \/ Loop(s) \/ Send(s) \/ Disconnect(s) \/ Drain(s)
        \/ Ffmpeg(s) \/ Crash(s)
        \/ Reap(s) \/ ReapTimeout(s) \/ Gone(s)

(* The event loop runs its tasks and finalises generators, ffmpeg works    *)
(* and obeys as its temper has it, timeouts come, and a client that has    *)
(* not hung up takes what it is sent.                                      *)
TranscoderFairness ==
    \A s \in Streams :
        /\ WF_ts(Loop(s)) /\ WF_ts(Send(s)) /\ WF_ts(Drain(s))
        /\ WF_ts(WriteAudio(s) \/ Exit(s)) /\ WF_ts(WriteError(s)) /\ WF_ts(Die(s))
        /\ WF_ts(Reap(s)) /\ WF_ts(ReapTimeout(s))

-----------------------------------------------------------------------------
(* "Don't leak processes": at every moment each ffmpeg has a generator     *)
(* that will terminate it, or a reaper that has and waits for it or gave   *)
(* up after SIGKILL (transcoder.py 10-15 and 126-162). No more than one:   *)
(* the end of the loop and the end of the block both ask for it (114-145). *)
ProcessesAreOwned ==
    \A s \in Streams :
        /\ Running(s) =>
              \/ ts[s].gen \in {"reading", "yielded", "parked"}
              \/ ts[s].reaper \in {"asked", "killing", "gave up"}
        /\ ts[s].reapers <= 1

(* Every stream comes to its end, also one that fills the stderr pipe on   *)
(* the way (transcoder.py 15-17, 95-108), and once it has the process ends *)
(* too, whatever it makes of SIGTERM, unless it is stuck in the kernel     *)
(* (165-201).                                                              *)
StreamsAndProcessesEnd ==
    \A s \in Streams :
        /\ ts[s].gen = "reading" ~> ts[s].gen = "closed"
        /\ ts[s].gen = "closed" /\ Running(s) ~> ~Running(s) \/ ts[s].temper = "stuck"
=============================================================================

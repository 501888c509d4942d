----------------------------- MODULE Streaming -----------------------------
(***************************************************************************)
(* stream, download and getTranscodeDecision (api/subsonic/streaming.py)   *)
(* on top of Decision and Transcoder: what a client is told before it      *)
(* streams, what it then gets, byte ranges and seeks, and the body of a    *)
(* raw stream, which is read while the file may be edited.                 *)
(*                                                                         *)
(* Sizes are in units; a second of a transcoded stream is RATE units.      *)
(***************************************************************************)
EXTENDS Decision, Transcoder

CONSTANTS Policies, Sources, Clients,   \* the inputs of Decision
          Formats, BitRates,            \* what requests ask for
          Headers, Offsets,             \* Range headers, timeOffset (-1: absent)
          Sizes,                        \* sizes a file may have
          RATE, CHUNK,
          Duration                      \* of every track, in seconds, 0: unknown

ASSUME StreamingAssumption ==
    /\ Policies \subseteq [enabled : BOOLEAN, format : STRING, bitrate : Nat, cap : Nat]
    /\ Sources \subseteq [suffix : STRING, kbps : Nat, channels : Nat]
    /\ \A c \in Clients : /\ c.maxTranscoding \in Nat
                          /\ c.targets \in Seq([codec : STRING, protocol : STRING])
    /\ Formats \subseteq STRING /\ BitRates \subseteq Int
    /\ Headers \subseteq Seq(Nat) /\ Offsets \subseteq Int /\ Sizes \subseteq Nat
    /\ RATE \in Nat \ {0} /\ CHUNK \in Nat \ {0} /\ Duration \in Nat

VARIABLES policy,   \* the settings
          source,   \* the row of the track
          file,     \* the size of its file
          client,   \* the capabilities the client declares
          answer,   \* the last decision: {} or {[decision, source]}
          resp,     \* per stream: status line and headers
          body      \* per stream: what of a raw body is left to send

requestVars == <<policy, source, file, client, answer>>
vars == <<requestVars, resp, body, ts>>

Request == [format : Formats \cup SUPPORTED_TRANSCODE_CODECS \cup {""}, maxBitRate : Int]
NoRequest == [format |-> "", maxBitRate |-> -1]
NoRow == [suffix |-> "", kbps |-> 0, channels |-> 0]

(* What was asked for, of which row, and what the headers say.             *)
Response ==
    [kind : {"none", "raw", "transcoded"}, status : {0, 200, 206},
     first : Nat, last : Int, length : Nat, size : Nat,
     format : SUPPORTED_TRANSCODE_CODECS \cup {""}, bitrate : Nat, by : {"", "offset", "range"},
     asked : Request, row : Sources \cup {NoRow}]
NoResp ==
    [kind |-> "none", status |-> 0, first |-> 0, last |-> 0, length |-> 0, size |-> 0,
     format |-> "", bitrate |-> 0, by |-> "", asked |-> NoRequest, row |-> NoRow]

RawBody ==
    [at : {"none", "headers", "open"}, position : Nat, remaining : Nat, sent : Nat,
     edited : BOOLEAN]
NoBody == [at |-> "none", position |-> 0, remaining |-> 0, sent |-> 0, edited |-> FALSE]

TypeOK ==
    /\ TranscoderTypeOK
    /\ policy \in Policies /\ source \in Sources /\ client \in Clients
    /\ file \in Sizes /\ Cardinality(answer) <= 1
    /\ resp \in [Streams -> Response] /\ body \in [Streams -> RawBody]
    /\ \A s \in Streams : body[s].at # "none" => resp[s].kind = "raw"

Init ==
    /\ policy \in Policies /\ source \in Sources /\ client \in Clients
    /\ file \in Sizes /\ answer = {}
    /\ resp = [s \in Streams |-> NoResp] /\ body = [s \in Streams |-> NoBody]
    /\ TranscoderInit

-----------------------------------------------------------------------------
GetTranscodeDecision ==
    /\ answer' = {[decision |-> decide(client, source, policy), source |-> source]}
    /\ UNCHANGED <<policy, source, file, client, resp, body, ts>>

(* The file is edited, replaced and scanned again.                         *)
Edit(size) ==
    /\ size # file
    /\ file' = size
    /\ body' = [s \in Streams |-> IF body[s].at = "none" THEN body[s]
                                  ELSE [body[s] EXCEPT !.edited = TRUE]]
    /\ UNCHANGED <<policy, source, client, answer, resp, ts>>

Rescan(row) ==
    /\ source' = row
    /\ UNCHANGED <<policy, file, client, answer, resp, body, ts>>

-----------------------------------------------------------------------------
ContentLength_Exclusive(range) == range[2] - range[1]  \* mutant: the end left out
ContentLength(range) == range[2] - range[1] + 1

(* The body counts for itself what remains of bytes start to end.          *)
_async_file_chunks(start, end) ==
    [NoBody EXCEPT !.at = "headers", !.position = start, !.remaining = end - start + 1]

_build_raw_response(header) ==
    LET range == _parse_range(header, file)
        base == [NoResp EXCEPT !.kind = "raw", !.size = file]
    IN  IF range = Whole
        THEN [headers |-> [base EXCEPT !.status = 200, !.length = file],
              content |-> _async_file_chunks(0, file - 1)]
        ELSE [headers |-> [base EXCEPT !.status = 206, !.first = range[1], !.last = range[2],
                                       !.length = ContentLength(range)],
              content |-> _async_file_chunks(range[1], range[2])]

(* The position a seek is announced at: the start of the range, taken to   *)
(* seconds and back in floating point, may lose the last unit.             *)
Announced(start) == IF start % RATE = 0 THEN {start} ELSE {start - 1, start}

_build_transcoded_response(preset, header, offset) ==
    LET total == Duration * RATE
        range == _parse_range(header, total)
        start == IF range = Whole THEN 0 ELSE range[1]
        base == [NoResp EXCEPT !.kind = "transcoded", !.size = total,
                               !.format = preset.format, !.bitrate = preset.bitrate]
        Seek(at, by) == [base EXCEPT !.status = 206, !.first = at, !.last = total - 1,
                                     !.by = by]
    IN  IF offset > 0 /\ total > 0 THEN {Seek(offset * RATE, "offset")}
        ELSE IF start > 0 THEN {Seek(at, "range") : at \in Announced(start)}
        ELSE {[base EXCEPT !.status = 200]}

Respond(s, format, maxBitRate, header, offset) ==
    /\ resp[s] = NoResp /\ ts[s] = Closed
    /\ LET preset == Served(policy, source, format, maxBitRate)
           To(made) == [made EXCEPT !.asked = [format |-> format, maxBitRate |-> maxBitRate],
                                    !.row = source]
       IN  IF preset.raw
           THEN LET raw == _build_raw_response(header) IN
                /\ resp' = [resp EXCEPT ![s] = To(raw.headers)]
                /\ body' = [body EXCEPT ![s] = raw.content]
           ELSE /\ \E made \in _build_transcoded_response(preset, header, offset) :
                      resp' = [resp EXCEPT ![s] = To(made)]
                /\ UNCHANGED body
    /\ UNCHANGED <<requestVars, ts>>

Stream(s) ==
    \E format \in Formats, maxBitRate \in BitRates, header \in Headers, offset \in Offsets :
        Respond(s, format, maxBitRate, header, offset)

(* The client takes the parameters it was given.                           *)
StreamAsDecided(s) ==
    \E a \in answer : \E p \in a.decision.params :
        Respond(s, p.format, p.maxBitRate, << >>, -1)

(* download asks for no format, which the policy reads as its default.     *)
Download(s) == \E header \in Headers : Respond(s, "", -1, header, -1)

-----------------------------------------------------------------------------
(* _async_file_chunks: the file is opened when the body is first asked     *)
(* for, and read chunk by chunk.                                           *)
OpenFile(s) ==
    /\ body[s].at = "headers"
    /\ body' = [body EXCEPT ![s].at = "open"]
    /\ UNCHANGED <<requestVars, resp, ts>>

Available(s) == IF file > body[s].position THEN file - body[s].position ELSE 0

ReadSize(s) == Least(CHUNK, Least(body[s].remaining, Available(s)))

ReadChunk(s) ==
    LET n == ReadSize(s) IN
    /\ body[s].at = "open" /\ n > 0
    /\ body' = [body EXCEPT ![s] = [body[s] EXCEPT !.position = @ + n, !.remaining = @ - n,
                                                   !.sent = @ + n]]
    /\ UNCHANGED <<requestVars, resp, ts>>

BodyDone(s) == body[s].at = "open" /\ (body[s].remaining = 0 \/ Available(s) = 0)

(* The body ends, or the client hangs up.                                  *)
CloseFile(s) ==
    /\ body[s].at # "none"
    /\ body' = [body EXCEPT ![s] = NoBody]
    /\ resp' = [resp EXCEPT ![s] = NoResp]
    /\ UNCHANGED <<requestVars, ts>>

(* A transcoded body begins with the generator and ends with it.           *)
OpenBody(s) ==
    /\ resp[s].kind = "transcoded" /\ Open(s)
    /\ UNCHANGED <<requestVars, resp, body>>

RunBody(s) ==
    /\ resp[s].kind = "transcoded" /\ ts[s] # Closed
    /\ \/ Loop(s) \/ Send(s) \/ Disconnect(s) \/ Drain(s)
       \/ Ffmpeg(s) \/ Crash(s) \/ Reap(s) \/ ReapTimeout(s) \/ Gone(s)
    /\ resp' = IF ts'[s] = Closed THEN [resp EXCEPT ![s] = NoResp] ELSE resp
    /\ UNCHANGED <<requestVars, body>>

(* The client is gone before the body was asked for.                       *)
Unasked(s) ==
    /\ resp[s].kind = "transcoded" /\ ts[s] = Closed
    /\ resp' = [resp EXCEPT ![s] = NoResp]
    /\ UNCHANGED <<requestVars, body, ts>>

Answers ==
    \/ GetTranscodeDecision
    \/ \E size \in Sizes : Edit(size)
    \/ \E row \in Sources : Rescan(row)
    \/ \E s \in Streams : Stream(s) \/ StreamAsDecided(s) \/ Download(s) \/ Unasked(s)

Bodies ==
    \E s \in Streams : OpenFile(s) \/ ReadChunk(s) \/ CloseFile(s) \/ OpenBody(s) \/ RunBody(s)

Next == Answers \/ Bodies

Spec == Init /\ [][Next]_vars /\ TranscoderFairness

-----------------------------------------------------------------------------
(* No rung lies between n and the bit rate served, below it or above.      *)
AtMostARungAbove(n, bitrate) == \A b \in BITRATES : b < bitrate => b < n
AtMostARungBelow(n, bitrate) == \A b \in BITRATES : b > bitrate => b > n

(* Who streams with the parameters of a decision, the track still being    *)
(* what it was, gets the codec announced and a bit rate that is a rung     *)
(* next to the one announced, or to the server's ceiling if that is lower; *)
(* or the file itself, when its codec and bit rate are just those          *)
(* announced (decision.py 430-461, streamer.py 120-150, presets.py         *)
(* 98-124). "Exactly the target" (decision.py 457) it may not be.          *)
DecisionIsHonoured ==
    \A a \in answer, s \in Streams : \A p \in a.decision.params, t \in a.decision.stream :
        /\ resp[s].kind # "none" /\ resp[s].asked = p
        /\ resp[s].row = a.source
        => IF resp[s].kind = "raw"
           THEN codec_for_suffix(a.source.suffix) = t.codec /\ a.source.kbps = t.kbps
           ELSE /\ resp[s].format = t.codec
                /\ AtMostARungAbove(Capped(t.kbps, policy.cap), resp[s].bitrate)
                /\ AtMostARungBelow(Capped(t.kbps, policy.cap), resp[s].bitrate)

(* A transcoded stream exceeds a ceiling by rounding to the next rung at   *)
(* most: the server's, the one the request names (or the default), and for *)
(* a request with the parameters of a decision the client's and the        *)
(* source's (streamer.py 29-30, decision.py 439-448, presets.py 98-124). A *)
(* request for a bit rate of 0 is excepted: the default it gets evades the *)
(* ceiling.                                                                *)
ServedWithinCeilings ==
    \A s \in Streams :
        resp[s].kind = "transcoded" /\ resp[s].asked.maxBitRate # 0 =>
            /\ resp[s].bitrate <= MAX_TRANSCODE_BITRATE
            /\ policy.cap # 0 => AtMostARungAbove(policy.cap, resp[s].bitrate)
            /\ AtMostARungAbove(IF resp[s].asked.maxBitRate = -1 THEN policy.bitrate
                               ELSE resp[s].asked.maxBitRate, resp[s].bitrate)
            /\ \A a \in answer : \A p \in a.decision.params :
                  resp[s].asked = p /\ resp[s].row = a.source =>
                      /\ client.maxTranscoding # 0 =>
                            AtMostARungAbove(client.maxTranscoding \div 1000, resp[s].bitrate)
                      /\ a.source.kbps # 0 =>
                            AtMostARungAbove(a.source.kbps, resp[s].bitrate)

(* A 206 describes a part of the resource: not beyond its end, not empty   *)
(* (streamer.py 61-84, 235-246, 320-331). Only a timeOffset past the end   *)
(* of the track is announced as it comes.                                  *)
PartialsAreParts ==
    \A s \in Streams :
        resp[s].kind # "none" /\ resp[s].status = 206 =>
            \/ resp[s].by = "offset" /\ resp[s].first >= resp[s].size
            \/ 0 <= resp[s].first /\ resp[s].first <= resp[s].last
               /\ resp[s].last < resp[s].size

(* The whole body of a raw stream is as long as its headers say, unless    *)
(* the file was edited since they were computed: then it may be shorter,   *)
(* and is never longer (streamer.py 92-113 and 218-246).                   *)
BodiesMatchHeaders ==
    /\ TypeOK
    /\ \A s \in Streams : BodyDone(s) =>
          /\ body[s].sent <= resp[s].length
          /\ ~body[s].edited =>
                /\ body[s].sent = resp[s].length
                /\ resp[s].status = 206 => body[s].position = resp[s].last + 1
=============================================================================

--------------------------- MODULE Streaming_proofs ---------------------------
(***************************************************************************)
(* For any settings, tracks, clients, requests and number of streams: the  *)
(* types, what a stream is served as against what was announced, ranges,   *)
(* the bodies of raw streams, and who owns the ffmpeg processes. At the    *)
(* other end, for any library, lists and bounds: the three properties of   *)
(* the browser's player and its stored queue (module Player).              *)
(***************************************************************************)
EXTENDS Streaming, Player, FiniteSetTheorems, SequenceTheorems, WellFoundedInduction, TLAPS

-----------------------------------------------------------------------------
(* The inductive invariant.                                                *)

(* A process that runs is held by a generator that has not ended, or was   *)
(* handed to the one reaper.                                               *)
Owned(t) ==
    /\ t.held => t.gen \in {"reading", "yielded", "parked"} /\ t.reapers = 0
    /\ t.proc = "running" => t.held \/ t.reaper \in {"asked", "killing", "gave up"}
    /\ t.reapers <= 1

(* A response is what is served for what was asked.                        *)
ServedAs(r) ==
    r.kind # "none" =>
        LET served == Served(policy, r.row, r.asked.format, r.asked.maxBitRate) IN
        /\ r.row \in Sources
        /\ r.kind = "raw" <=> served.raw
        /\ r.kind = "transcoded" => r.format = served.format /\ r.bitrate = served.bitrate

IsPart(r) ==
    r.kind # "none" /\ r.status = 206 =>
        \/ r.by = "offset" /\ r.first >= r.size
        \/ 0 <= r.first /\ r.first <= r.last /\ r.last < r.size

(* What was sent and what remains are what the headers announced, which is *)
(* in the file unless it was edited.                                       *)
OnTrack(b, r) ==
    b.at # "none" =>
        /\ r.kind = "raw"
        /\ b.position = r.first + b.sent /\ b.sent + b.remaining = r.length
        /\ r.status = 206 => r.last + 1 = r.first + r.length
        /\ ~b.edited => r.size = file /\ r.first + r.length <= r.size

IInv ==
    /\ TypeOK
    /\ \A a \in answer : a.source \in Sources /\ a.decision = decide(client, a.source, policy)
    /\ \A s \in Streams : /\ Owned(ts[s]) /\ ServedAs(resp[s]) /\ IsPart(resp[s])
                          /\ OnTrack(body[s], resp[s])

-----------------------------------------------------------------------------
(* What is served and what is announced.                                   *)

Policy == [enabled : BOOLEAN, format : STRING, bitrate : Nat, cap : Nat]
TrackRow == [suffix : STRING, kbps : Nat, channels : Nat]

\* The presets are mp3, aac and opus, each at every rung.
LEMMA Codecs == SUPPORTED_TRANSCODE_CODECS = {"mp3", "aac", "opus"}
<1>1. ASSUME NEW c \in SUPPORTED_TRANSCODE_CODECS
      PROVE  c \in {"mp3", "aac", "opus"}
  <2>1. PICK p \in PRESETS : c = p[1]
    BY DEF SUPPORTED_TRANSCODE_CODECS
  <2> QED
    BY <2>1 DEF PRESETS
<1>2. ASSUME NEW c \in {"mp3", "aac", "opus"}
      PROVE  c \in SUPPORTED_TRANSCODE_CODECS
  <2>1. <<c, 128>> \in PRESETS /\ <<c, 128>>[1] = c
    BY DEF PRESETS, BITRATES
  <2> QED
    BY <2>1 DEF SUPPORTED_TRANSCODE_CODECS
<1> QED
  BY <1>1, <1>2

\* The closest rung is a rung.
LEMMA SnappedType == ASSUME NEW n \in Int PROVE Snapped(n) \in BITRATES
<1> DEFINE Closest(b) == \A c \in BITRATES :
              \/ Distance(b, n) < Distance(c, n)
              \/ Distance(b, n) = Distance(c, n) /\ b <= c
<1>1. CASE n <= 160
  BY <1>1 DEF Snapped, BITRATES, Distance
<1>2. CASE n > 160 /\ n <= 224
  BY <1>2 DEF Snapped, BITRATES, Distance
<1>3. CASE n > 224 /\ n <= 288
  BY <1>3 DEF Snapped, BITRATES, Distance
<1>4. CASE n > 288
  BY <1>4 DEF Snapped, BITRATES, Distance
<1> QED
  BY <1>1, <1>2, <1>3, <1>4

\* A preset has a supported format and the bit rate of a rung.
LEMMA ServedType ==
  ASSUME NEW p \in Policy, NEW r \in TrackRow, NEW format, NEW n \in Int
  PROVE  LET served == Served(p, r, format, n) IN
         /\ served.raw \in BOOLEAN
         /\ ~served.raw => /\ served.format \in SUPPORTED_TRANSCODE_CODECS
                           /\ served.bitrate \in BITRATES
<1> DEFINE asked == _apply_policy(p, format, n)
<1>1. CASE asked.format = "raw"
  BY <1>1 DEF Served, Raw
<1>2. CASE asked.format # "raw" /\ (\/ asked.format \notin SUPPORTED_TRANSCODE_CODECS
                                    \/ KeepsSource(asked, r))
  BY <1>2 DEF Served, resolve_preset, Raw
<1>3. CASE asked.format # "raw" /\ asked.format \in SUPPORTED_TRANSCODE_CODECS
           /\ ~KeepsSource(asked, r)
  <2>1. asked.bitrate \in Int
    <3> DEFINE fmt == IF format = "" THEN p.format ELSE format
               bitrate == IF n = -1 THEN p.bitrate ELSE n
               cap == Capped(MAX_TRANSCODE_BITRATE, p.cap)
    <3>1. bitrate \in Int /\ cap \in Int
      BY DEF Least, Capped, Policy, MAX_TRANSCODE_BITRATE
    <3>2. Least(bitrate, cap) \in Int
      BY <3>1 DEF Least
    <3> HIDE DEF fmt, bitrate, cap
    <3>3. \/ asked = [format |-> "raw"]
          \/ asked = [format |-> fmt, bitrate |-> Least(bitrate, cap)]
      BY DEF _apply_policy, fmt, bitrate, cap
    <3> QED
      BY <1>3, <3>2, <3>3
  <2> HIDE DEF asked
  <2> DEFINE n0 == Least(Or(asked.bitrate, p.bitrate), MAX_TRANSCODE_BITRATE)
  <2>2. n0 \in Int
    BY <2>1 DEF Least, Or, Policy, MAX_TRANSCODE_BITRATE
  <2>3. Snapped(n0) \in BITRATES
    BY <2>2, SnappedType
  <2> HIDE DEF n0
  <2>4. Served(p, r, format, n) =
          [raw |-> FALSE, format |-> asked.format, bitrate |-> Snapped(n0)]
    BY <1>3 DEF Served, resolve_preset, asked, n0
  <2> QED
    BY <1>3, <2>3, <2>4
<1> QED
  BY <1>1, <1>2, <1>3

\* A set of natural numbers that is not empty has a least one.
LEMMA LeastIn ==
  ASSUME NEW S \in SUBSET Nat, S # {} PROVE \E m \in S : \A k \in S : m <= k
<1> DEFINE R == {pair \in Nat \X Nat : pair[1] < pair[2]}
<1>1. IsWellFoundedOn(R, Nat)
  BY NatLessThanWellFounded DEF OpToRel
<1> HIDE DEF R
<1>2. PICK m \in S : \A y \in S : <<y, m>> \notin R
  BY <1>1, WFMin
<1>3. ASSUME NEW y \in S PROVE m <= y
  <2>1. m \in Nat /\ y \in Nat
    OBVIOUS
  <2>2. <<y, m>> \in Nat \X Nat /\ <<y, m>>[1] = y /\ <<y, m>>[2] = m
    BY <2>1
  <2>3. ~(y < m)
    BY <1>2, <2>2 DEF R
  <2> QED
    BY <2>1, <2>3
<1> QED
  BY <1>3

\* The operator names it.
LEMMA MinIn == ASSUME NEW S \in SUBSET Nat, S # {} PROVE Min(S) \in S
  BY LeastIn DEF Min

\* A target is a codec the server has presets for, or there is none.
LEMMA TargetType ==
  ASSUME NEW targets \in Seq([codec : STRING, protocol : STRING]), NEW default \in STRING
  PROVE  LET target == _pick_transcode_target(targets, default) IN
         target # NoTarget => target.codec \in SUPPORTED_TRANSCODE_CODECS
<1> DEFINE usable == {i \in DOMAIN targets :
                        /\ targets[i].codec \in SUPPORTED_TRANSCODE_CODECS
                        /\ targets[i].protocol \in OK_PROTOCOLS}
<1>1. CASE usable # {}
  <2>1. usable \in SUBSET Nat
    OBVIOUS
  <2>2. Min(usable) \in usable
    BY <1>1, <2>1, MinIn
  <2> QED
    BY <1>1, <2>2 DEF _pick_transcode_target
<1>2. CASE usable = {}
  BY <1>2 DEF _pick_transcode_target
<1> QED
  BY <1>1, <1>2

\* A ceiling lowers a positive number to itself, and never to 0.
LEMMA CappedType ==
  ASSUME NEW n \in Nat, n > 0, NEW cap \in Nat
  PROVE  /\ Capped(n, cap) \in Nat /\ Capped(n, cap) > 0 /\ Capped(n, cap) <= n
         /\ cap # 0 => Capped(n, cap) <= cap
BY DEF Capped, Least

\* What is announced: a supported codec at a bit rate that is not 0 and within
\* the ceilings, but for a client's below 1 kbit/s, and parameters that ask for
\* that.
LEMMA WhatIsAnnounced ==
  ASSUME NEW p \in Policy, NEW r \in TrackRow, NEW c,
         c.maxTranscoding \in Nat, c.targets \in Seq([codec : STRING, protocol : STRING]),
         NEW t \in decide(c, r, p).stream
  PROVE  /\ t.codec \in SUPPORTED_TRANSCODE_CODECS /\ t.kbps \in Nat
         /\ t.kbps \in 1..MAX_TRANSCODE_BITRATE
         /\ c.maxTranscoding # 0 => t.kbps = 1 \/ 1000 * t.kbps <= c.maxTranscoding
         /\ r.kbps # 0 => t.kbps <= r.kbps
         /\ p.enabled
         /\ decide(c, r, p).params = {[format |-> t.codec, maxBitRate |-> t.kbps]}
<1> DEFINE target == _pick_transcode_target(c.targets, p.format)
           kbps == _target_kbps(c, r)
           direct == _direct_play(c, r)
<1>1. target # NoTarget => target.codec \in SUPPORTED_TRANSCODE_CODECS
  BY TargetType DEF Policy
<1>2. /\ kbps \in 1..MAX_TRANSCODE_BITRATE
      /\ c.maxTranscoding # 0 => kbps = 1 \/ 1000 * kbps <= c.maxTranscoding
      /\ r.kbps # 0 => kbps <= r.kbps
  <2>0. PICK most \in Nat : most = 1000 * MAX_TRANSCODE_BITRATE /\ most > 0
    BY DEF MAX_TRANSCODE_BITRATE
  <2>m. PICK ceiling \in Nat : ceiling = c.maxTranscoding
    OBVIOUS
  <2>k. PICK encoded \in Nat : encoded = 1000 * r.kbps
    BY DEF TrackRow
  <2> DEFINE server == Capped(most, ceiling)
             bps == cap_bps(c, r)
  <2>1. r.kbps \in Nat /\ (r.kbps # 0 => encoded # 0)
    BY <2>k DEF TrackRow
  <2>2. /\ server \in Nat /\ server > 0 /\ server <= most
        /\ ceiling # 0 => server <= ceiling
    BY <2>0 DEF Capped, Least
  <2>3. bps = Capped(server, encoded)
    BY <2>0, <2>m, <2>k DEF cap_bps
  <2>4. kbps = IF bps < 1000 THEN 1 ELSE bps \div 1000
    BY DEF _target_kbps
  <2> HIDE DEF server, bps, kbps
  <2>5. /\ bps \in Nat /\ bps > 0 /\ bps <= server
        /\ encoded # 0 => bps <= encoded
    BY <2>2, <2>3, CappedType
  <2>6. kbps \in Nat /\ kbps >= 1 /\ (kbps = 1 \/ 1000 * kbps <= bps)
    BY <2>4, <2>5
  <2> QED
    BY <2>0, <2>m, <2>k, <2>1, <2>2, <2>5, <2>6 DEF MAX_TRANSCODE_BITRATE
<1> HIDE DEF target, kbps, direct
<1>3. /\ ~direct /\ p.enabled /\ target # NoTarget
      /\ t = [codec |-> target.codec, kbps |-> kbps]
      /\ decide(c, r, p).params = {transcode_params(target, kbps)}
  BY DEF decide, target, kbps, direct
<1>4. t.codec = target.codec /\ t.kbps = kbps
  BY <1>3
<1>5. decide(c, r, p).params = {[format |-> t.codec, maxBitRate |-> t.kbps]}
  BY <1>3, <1>4 DEF transcode_params
<1>6. kbps \in Nat
  BY <1>2
<1> QED
  BY <1>1, <1>2, <1>3, <1>4, <1>5, <1>6

\* No rung lies between a number and the rung it is rounded to.
LEMMA SnappedBeside ==
  ASSUME NEW n \in Int
  PROVE  AtMostARungAbove(n, Snapped(n)) /\ AtMostARungBelow(n, Snapped(n))
<1>1. PICK b \in BITRATES : /\ b = Snapped(n)
                            /\ \A c \in BITRATES : Distance(b, n) <= Distance(c, n)
  <2>1. CASE n <= 160
    BY <2>1 DEF Snapped, BITRATES, Distance
  <2>2. CASE n > 160 /\ n <= 224
    BY <2>2 DEF Snapped, BITRATES, Distance
  <2>3. CASE n > 224 /\ n <= 288
    BY <2>3 DEF Snapped, BITRATES, Distance
  <2>4. CASE n > 288
    BY <2>4 DEF Snapped, BITRATES, Distance
  <2> QED
    BY <2>1, <2>2, <2>3, <2>4
<1>2. ASSUME NEW c \in BITRATES PROVE (c < b => c < n) /\ (c > b => c > n)
  BY <1>1, <1>2 DEF BITRATES, Distance
<1> QED
  BY <1>1, <1>2 DEF AtMostARungAbove, AtMostARungBelow

\* What a transcoded stream is encoded at: the rung beside what was asked for
\* after the policy, which is no more than the request or the default and the
\* server's ceiling.
LEMMA ServedAt ==
  ASSUME NEW p \in Policy, NEW r \in TrackRow, NEW format, NEW n \in Int, n # 0,
         ~Served(p, r, format, n).raw
  PROVE  LET asked == IF n = -1 THEN p.bitrate ELSE n
             bitrate == Served(p, r, format, n).bitrate
         IN  /\ p.cap # 0 => AtMostARungAbove(p.cap, bitrate)
             /\ AtMostARungAbove(asked, bitrate)
             /\ n > 0 => /\ AtMostARungAbove(Capped(n, p.cap), bitrate)
                         /\ n <= MAX_TRANSCODE_BITRATE =>
                               AtMostARungBelow(Capped(n, p.cap), bitrate)
<1> DEFINE fmt == IF format = "" THEN p.format ELSE format
           ask == IF n = -1 THEN p.bitrate ELSE n
           cap == Capped(MAX_TRANSCODE_BITRATE, p.cap)
           after == Least(ask, cap)
           at == Least(Or(after, p.bitrate), MAX_TRANSCODE_BITRATE)
           bitrate == Served(p, r, format, n).bitrate
<1>1. ask \in Int /\ p.cap \in Nat /\ p.bitrate \in Nat
  BY DEF Policy
<1>2. cap \in Nat /\ cap <= 320 /\ cap > 0 /\ (p.cap # 0 => cap <= p.cap)
  BY <1>1 DEF Capped, Least, MAX_TRANSCODE_BITRATE
<1>3. \/ _apply_policy(p, format, n) = [format |-> "raw"]
      \/ _apply_policy(p, format, n) = [format |-> fmt, bitrate |-> after]
  BY DEF _apply_policy
<1>4. bitrate = Snapped(at)
  <2>1. PICK asked : asked = _apply_policy(p, format, n)
    OBVIOUS
  <2>2. asked.format # "raw" /\ resolve_preset(p, asked, r) = Served(p, r, format, n)
    BY <2>1 DEF Served, Raw
  <2> HIDE DEF fmt, after
  <2>3. asked = [format |-> fmt, bitrate |-> after]
    <3>1. asked # [format |-> "raw"]
      BY <2>2
    <3> QED
      BY <1>3, <2>1, <3>1
  <2>4. asked.bitrate = after
    BY <2>3
  <2>5. Served(p, r, format, n) =
          [raw |-> FALSE, format |-> asked.format,
           bitrate |-> Snapped(Least(Or(asked.bitrate, p.bitrate), MAX_TRANSCODE_BITRATE))]
    BY <2>2 DEF resolve_preset, Raw
  <2> QED
    BY <2>4, <2>5
<1> HIDE DEF fmt, bitrate, cap
<1>5. after \in Int /\ after <= ask /\ after <= cap /\ (after = ask \/ after = cap)
  BY <1>1, <1>2 DEF Least
<1>6. ask = 0 => p.bitrate = 0
  OBVIOUS
<1> HIDE DEF ask
<1> HIDE DEF after
<1>7. at = after
  <2>1. Or(after, p.bitrate) = after
    BY <1>2, <1>5, <1>6 DEF Or
  <2> QED
    BY <1>2, <1>5, <2>1 DEF Least, MAX_TRANSCODE_BITRATE
<1>8. /\ \A b \in BITRATES : b < bitrate => b < after
      /\ \A b \in BITRATES : b > bitrate => b > after
  BY <1>4, <1>5, <1>7, SnappedBeside DEF AtMostARungAbove, AtMostARungBelow
<1>9. BITRATES \subseteq Nat /\ \A b \in BITRATES : b <= 320
  BY DEF BITRATES
<1>10. AtMostARungAbove(ask, bitrate) /\ (p.cap # 0 => AtMostARungAbove(p.cap, bitrate))
  BY <1>1, <1>2, <1>5, <1>8, <1>9 DEF AtMostARungAbove
<1>11. ASSUME n > 0
       PROVE  /\ AtMostARungAbove(Capped(n, p.cap), bitrate)
              /\ n <= MAX_TRANSCODE_BITRATE => AtMostARungBelow(Capped(n, p.cap), bitrate)
  <2>1. ask = n
    BY <1>11 DEF ask
  <2>2. /\ Capped(n, p.cap) \in Int /\ after <= Capped(n, p.cap)
        /\ n <= 320 => after = Capped(n, p.cap)
    BY <1>1, <1>2, <1>5, <1>11, <2>1 DEF Capped, Least, cap, after, MAX_TRANSCODE_BITRATE
  <2> QED
    BY <1>5, <1>8, <1>9, <2>2 DEF AtMostARungAbove, AtMostARungBelow, MAX_TRANSCODE_BITRATE
<1> QED
  BY <1>10, <1>11 DEF bitrate, ask

\* A client that asks for a codec the server has presets for gets it, or the
\* file as it is, which has it at no more than was asked for.
LEMMA Honoured ==
  ASSUME NEW p \in Policy, NEW r \in TrackRow, p.enabled,
         NEW codec \in SUPPORTED_TRANSCODE_CODECS, NEW n \in Nat
  PROVE  LET served == Served(p, r, codec, n) IN
         IF served.raw
         THEN codec_for_suffix(r.suffix) = codec /\ r.kbps # 0 /\ r.kbps <= n
         ELSE served.format = codec
<1> DEFINE asked == _apply_policy(p, codec, n)
<1>1. codec \in {"mp3", "aac", "opus"}
  BY Codecs
<1>2. asked.format = codec /\ asked.format # "raw"
  BY <1>1 DEF _apply_policy
<1>3. asked.bitrate \in Int /\ asked.bitrate <= n
  <2>1. PICK cap \in Nat : cap = Capped(MAX_TRANSCODE_BITRATE, p.cap)
    BY CappedType DEF Policy, MAX_TRANSCODE_BITRATE
  <2>2. asked = [format |-> codec, bitrate |-> Least(n, cap)]
    <3>1. codec # "" /\ codec # "raw"
      BY <1>1
    <3>2. n # -1
      OBVIOUS
    <3> QED
      BY <2>1, <3>1, <3>2 DEF _apply_policy
  <2> QED
    BY <2>2 DEF Least
<1> HIDE DEF asked
<1>4. Served(p, r, codec, n) = resolve_preset(p, asked, r)
  BY <1>2 DEF Served, asked
<1>5. CASE KeepsSource(asked, r)
  <2>1. r.suffix = codec /\ r.kbps # 0 /\ r.kbps <= n
    BY <1>2, <1>3, <1>5 DEF KeepsSource, TrackRow
  <2>2. codec_for_suffix(codec) = codec
    BY <1>1 DEF codec_for_suffix
  <2> QED
    BY <1>4, <1>5, <2>1, <2>2 DEF resolve_preset, Raw
<1>6. CASE ~KeepsSource(asked, r)
  BY <1>2, <1>4, <1>6 DEF resolve_preset
<1> QED
  BY <1>5, <1>6

\* A range that is honoured is a part of the resource.
LEMMA RangeType ==
  ASSUME NEW wanted \in Seq(Nat), NEW size \in Nat
  PROVE  LET range == _parse_range(wanted, size) IN
         range # Whole =>
            /\ range[1] \in Nat /\ range[2] \in Nat
            /\ range[1] <= range[2] /\ range[2] < size
<1> DEFINE first == wanted[1]
           last == IF Len(wanted) = 2 THEN wanted[2] ELSE size - 1
<1>1. CASE wanted = << >>
  BY <1>1 DEF _parse_range
<1>2. CASE wanted # << >>
  <2>1. first \in Nat /\ last \in Int
    BY <1>2
  <2>2. _parse_range(wanted, size) = IF first >= size \/ last < first THEN Whole
                                     ELSE <<first, Least(last, size - 1)>>
    BY <1>2 DEF _parse_range
  <2> HIDE DEF first, last
  <2>3. CASE first >= size \/ last < first
    BY <2>2, <2>3
  <2>4. CASE ~(first >= size \/ last < first)
    BY <2>1, <2>2, <2>4 DEF Least
  <2> QED
    BY <2>3, <2>4
<1> QED
  BY <1>1, <1>2

-----------------------------------------------------------------------------
(* The processes.                                                          *)

\* What the fields of a slot may be.
LEMMA SlotFields ==
  ASSUME NEW t \in Slot
  PROVE  /\ t.gen \in {"closed", "spawning", "reading", "yielded", "parked"}
         /\ t.held \in BOOLEAN /\ t.proc \in {"none", "running", "exited"}
         /\ t.left \in Nat /\ t.left <= Chunks /\ t.errors \in Nat /\ t.errors <= ErrorLines
         /\ t.reapers \in 0..2
<1>1. /\ t.gen \in {"closed", "spawning", "reading", "yielded", "parked"}
      /\ t.held \in BOOLEAN /\ t.proc \in {"none", "running", "exited"}
  BY DEF Slot
<1>2. t.left \in 0..Chunks /\ t.errors \in 0..ErrorLines
  BY DEF Slot
<1>3. t.reapers \in 0..2
  BY DEF Slot
<1> QED
  BY <1>1, <1>2, <1>3, TranscoderAssumption

\* A slot with a field set to what it may be is a slot.
LEMMA SlotWith ==
  ASSUME NEW t \in Slot
  PROVE  /\ \A x \in {"closed", "spawning", "reading", "yielded", "parked"} :
               [t EXCEPT !.gen = x] \in Slot
         /\ \A x \in BOOLEAN : [t EXCEPT !.held = x] \in Slot
         /\ \A x \in {"none", "running", "exited"} : [t EXCEPT !.proc = x] \in Slot
         /\ \A x \in {"none", "term", "kill"} : [t EXCEPT !.signal = x] \in Slot
         /\ \A x \in {"obedient", "stubborn", "stuck"} : [t EXCEPT !.temper = x] \in Slot
         /\ \A x \in 0..Chunks : [t EXCEPT !.left = x] \in Slot
         /\ \A x \in 0..ErrorLines : [t EXCEPT !.errors = x] \in Slot
         /\ [t EXCEPT !.out = 0] \in Slot /\ [t EXCEPT !.out = 1] \in Slot
         /\ [t EXCEPT !.err = 0] \in Slot /\ [t EXCEPT !.err = 1] \in Slot
         /\ \A x \in {"none", "on", "done"} : [t EXCEPT !.drain = x] \in Slot
         /\ \A x \in {"none", "asked", "killing", "done", "gave up"} :
               [t EXCEPT !.reaper = x] \in Slot
         /\ [t EXCEPT !.reapers = 1] \in Slot
<1>1. ASSUME NEW x \in {"closed", "spawning", "reading", "yielded", "parked"}
      PROVE  [t EXCEPT !.gen = x] \in Slot
  BY DEF Slot
<1>2. ASSUME NEW x \in BOOLEAN PROVE [t EXCEPT !.held = x] \in Slot
  BY DEF Slot
<1>3. ASSUME NEW x \in {"none", "running", "exited"} PROVE [t EXCEPT !.proc = x] \in Slot
  BY DEF Slot
<1>4. ASSUME NEW x \in {"none", "term", "kill"} PROVE [t EXCEPT !.signal = x] \in Slot
  BY DEF Slot
<1>5. ASSUME NEW x \in {"obedient", "stubborn", "stuck"}
      PROVE  [t EXCEPT !.temper = x] \in Slot
  BY DEF Slot
<1>6. ASSUME NEW x \in 0..Chunks PROVE [t EXCEPT !.left = x] \in Slot
  BY DEF Slot
<1>7. ASSUME NEW x \in 0..ErrorLines PROVE [t EXCEPT !.errors = x] \in Slot
  BY DEF Slot
<1>8. ASSUME NEW x \in 0..1 PROVE [t EXCEPT !.out = x] \in Slot
  BY DEF Slot
<1>9. ASSUME NEW x \in 0..1 PROVE [t EXCEPT !.err = x] \in Slot
  BY DEF Slot
<1>10. ASSUME NEW x \in {"none", "on", "done"} PROVE [t EXCEPT !.drain = x] \in Slot
  BY DEF Slot
<1>11. ASSUME NEW x \in {"none", "asked", "killing", "done", "gave up"}
       PROVE  [t EXCEPT !.reaper = x] \in Slot
  BY DEF Slot
<1>12. ASSUME NEW x \in 0..2 PROVE [t EXCEPT !.reapers = x] \in Slot
  BY DEF Slot
<1>13. 0 \in 0..1 /\ 1 \in 0..1 /\ 1 \in 0..2
  OBVIOUS
<1>14. /\ [t EXCEPT !.out = 0] \in Slot /\ [t EXCEPT !.out = 1] \in Slot
       /\ [t EXCEPT !.err = 0] \in Slot /\ [t EXCEPT !.err = 1] \in Slot
       /\ [t EXCEPT !.reapers = 1] \in Slot
  BY <1>8, <1>9, <1>12, <1>13
<1> QED
  BY <1>1, <1>2, <1>3, <1>4, <1>5, <1>6, <1>7, <1>10, <1>11, <1>14

\* A stream whose slot changes to an owned one leaves the others as they are.
LEMMA SlotChange ==
  ASSUME TranscoderTypeOK, \A x \in Streams : Owned(ts[x]),
         NEW s \in Streams, NEW slot \in Slot, Owned(slot), Becomes(s, slot)
  PROVE  TranscoderTypeOK' /\ \A x \in Streams : Owned(ts'[x])
<1>1. ts' \in [Streams -> Slot]
  BY DEF TranscoderTypeOK, Becomes
<1>2. \A x \in Streams : ts'[x] = IF x = s THEN slot ELSE ts[x]
  BY DEF TranscoderTypeOK, Becomes
<1> QED
  BY <1>1, <1>2 DEF TranscoderTypeOK

\* Nobody owns a stream that is closed, nor one that is being started.
LEMMA ClosedOwned ==
  /\ Closed \in Slot /\ Owned(Closed)
  /\ [Closed EXCEPT !.gen = "spawning"] \in Slot /\ Owned([Closed EXCEPT !.gen = "spawning"])
<1>1. Closed \in Slot
  BY TranscoderAssumption DEF Closed, Slot
<1>2. Owned(Closed) /\ Owned([Closed EXCEPT !.gen = "spawning"])
  BY DEF Closed, Owned
<1> QED
  BY <1>1, <1>2, SlotWith

\* A generator that has started holds its process.
LEMMA StartedOwned ==
  ASSUME NEW temper \in {"obedient", "stubborn", "stuck"}
  PROVE  Started(temper) \in Slot /\ Owned(Started(temper))
<1>1. PICK t1 \in Slot : t1 = [Closed EXCEPT !.gen = "reading"]
  BY ClosedOwned, SlotWith
<1>2. PICK t2 \in Slot : t2 = [t1 EXCEPT !.held = TRUE]
  BY SlotWith
<1>3. PICK t3 \in Slot : t3 = [t2 EXCEPT !.proc = "running"]
  BY SlotWith
<1>4. PICK t4 \in Slot : t4 = [t3 EXCEPT !.temper = temper]
  BY SlotWith
<1>5. PICK t5 \in Slot : t5 = [t4 EXCEPT !.left = Chunks]
  <2>1. Chunks \in 0..Chunks
    BY TranscoderAssumption
  <2> QED
    BY <2>1, SlotWith
<1>6. PICK t6 \in Slot : t6 = [t5 EXCEPT !.errors = ErrorLines]
  <2>1. ErrorLines \in 0..ErrorLines
    BY TranscoderAssumption
  <2> QED
    BY <2>1, SlotWith
<1>7. Started(temper) = [t6 EXCEPT !.drain = "on"]
  BY <1>1, <1>2, <1>3, <1>4, <1>5, <1>6 DEF Started
<1>8. Started(temper) \in Slot
  BY <1>7, SlotWith
<1>9. Owned(Started(temper))
  BY DEF Started, Closed, Owned
<1> QED
  BY <1>8, <1>9

\* Leaving hands the process to a reaper, and the second time to nobody.
LEMMA LeftOwned ==
  ASSUME NEW t \in Slot, Owned(t)
  PROVE  Left(t) \in Slot /\ Owned(Left(t))
<1>1. CASE t.held
  <2> DEFINE t1 == [t EXCEPT !.held = FALSE,
                             !.signal = IF t.proc = "running" THEN "term" ELSE @,
                             !.reaper = "asked", !.reapers = @ + 1]
  <2>1. t.reapers = 0
    BY <1>1 DEF Owned
  <2>2. Owned(t1) /\ ~t1.held
    <3>1. /\ t1.held = FALSE /\ t1.reaper = "asked" /\ t1.proc = t.proc
          /\ t1.reapers = t.reapers + 1
      BY DEF Slot
    <3>2. t1.reapers = 1
      BY <2>1, <3>1
    <3> HIDE DEF t1
    <3>3. ~t1.held /\ t1.reaper \in {"asked", "killing", "gave up"}
      BY <3>1
    <3>4. t1.reapers <= 1
      BY <3>2
    <3>5. t1.proc = "running" => t1.held \/ t1.reaper \in {"asked", "killing", "gave up"}
      BY <3>3
    <3>6. t1.held => t1.gen \in {"reading", "yielded", "parked"} /\ t1.reapers = 0
      BY <3>3
    <3> QED
      BY <3>3, <3>4, <3>5, <3>6 DEF Owned
  <2>3. t1 \in Slot
    <3>1. PICK t2 \in Slot : t2 = [t EXCEPT !.held = FALSE]
      BY SlotWith
    <3>2. PICK signal \in {"none", "term", "kill"} :
             signal = IF t.proc = "running" THEN "term" ELSE t.signal
      BY DEF Slot
    <3>3. PICK t3 \in Slot : t3 = [t2 EXCEPT !.signal = signal]
      BY SlotWith
    <3>4. PICK t4 \in Slot : t4 = [t3 EXCEPT !.reaper = "asked"]
      BY SlotWith
    <3>5. PICK t5 \in Slot : t5 = [t4 EXCEPT !.reapers = 1]
      BY SlotWith
    <3>6. t4 = [t EXCEPT !.held = FALSE, !.signal = IF t.proc = "running" THEN "term" ELSE @,
                         !.reaper = "asked"]
      BY <3>1, <3>2, <3>3, <3>4 DEF Slot
    <3>7. t4.reapers + 1 = 1
      <4>1. t4.reapers = t.reapers
        BY <3>1, <3>3, <3>4 DEF Slot
      <4> QED
        BY <2>1, <4>1
    <3>8. t1 = t5
      BY <3>5, <3>6, <3>7
    <3> QED
      BY <3>8
  <2>4. _terminate(t) = t1
    BY <1>1 DEF _terminate
  <2> HIDE DEF t1
  <2>5. _terminate(t1) = t1
    BY <2>2 DEF _terminate
  <2>6. Left(t) = [t1 EXCEPT !.gen = "closed"]
    BY <2>4, <2>5 DEF Left
  <2>7. Left(t) \in Slot
    BY <2>3, <2>6, SlotWith
  <2> QED
    BY <2>2, <2>3, <2>6, <2>7 DEF Slot, Owned
<1>2. CASE ~t.held
  <2>1. Left(t) = [t EXCEPT !.gen = "closed"]
    BY <1>2 DEF Left, _terminate
  <2>2. Left(t) \in Slot
    BY <2>1, SlotWith
  <2> QED
    BY <1>2, <2>1, <2>2 DEF Slot, Owned
<1> QED
  BY <1>1, <1>2, SlotFields

\* Whatever a process, its generator, its tasks or its client does leaves the
\* process owned.
LEMMA ProcessStep ==
  ASSUME TranscoderTypeOK, \A x \in Streams : Owned(ts[x]), NEW s \in Streams,
         \/ Open(s) \/ Loop(s) \/ Send(s) \/ Disconnect(s) \/ Drain(s)
         \/ Ffmpeg(s) \/ Crash(s) \/ Reap(s) \/ ReapTimeout(s) \/ Gone(s)
  PROVE  TranscoderTypeOK' /\ \A x \in Streams : Owned(ts'[x])
<1>1. PICK t \in Slot : t = ts[s] /\ Owned(t)
  BY DEF TranscoderTypeOK
<1>2. ASSUME NEW slot, Becomes(s, slot), slot \in Slot /\ Owned(slot)
      PROVE  TranscoderTypeOK' /\ \A x \in Streams : Owned(ts'[x])
  BY <1>2, SlotChange
<1>3. ASSUME Becomes(s, Left(ts[s]))
      PROVE  TranscoderTypeOK' /\ \A x \in Streams : Owned(ts'[x])
  BY <1>1, <1>2, <1>3, LeftOwned
<1>4. CASE Open(s) \/ Gone(s)
  BY <1>2, <1>4, ClosedOwned DEF Open, Gone
<1>5. CASE Spawn(s)
  BY <1>2, <1>5, ClosedOwned, StartedOwned DEF Spawn
<1>6. CASE Read(s)
  <2>1. PICK t1 \in Slot : t1 = [t EXCEPT !.out = 0]
    BY SlotWith
  <2>2. PICK t2 \in Slot : t2 = [t1 EXCEPT !.gen = "yielded"]
    BY SlotWith
  <2>3. t2 = [t EXCEPT !.out = 0, !.gen = "yielded"]
    BY <2>1, <2>2
  <2>4. Owned([t EXCEPT !.out = 0, !.gen = "yielded"])
    BY <1>1, <1>6 DEF Read, Slot, Owned
  <2> QED
    BY <1>1, <1>2, <1>6, <2>3, <2>4 DEF Read
<1>7. CASE ReadEnd(s) \/ Finalise(s)
  BY <1>3, <1>7 DEF ReadEnd, Finalise
<1>8. CASE Send(s)
  <2>1. [t EXCEPT !.gen = "reading"] \in Slot /\ Owned([t EXCEPT !.gen = "reading"])
    BY <1>1, <1>8 DEF Send, Slot, Owned
  <2> QED
    BY <1>1, <1>2, <1>8, <2>1 DEF Send
<1>9. CASE Disconnect(s)
  <2>1. t.gen = "yielded" => /\ [t EXCEPT !.gen = "parked"] \in Slot
                             /\ Owned([t EXCEPT !.gen = "parked"])
    BY <1>1 DEF Slot, Owned
  <2> QED
    BY <1>1, <1>2, <1>3, <1>9, <2>1, ClosedOwned DEF Disconnect
<1>10. CASE Drain(s)
  <2>1. [t EXCEPT !.err = 0] \in Slot /\ [t EXCEPT !.drain = "done"] \in Slot
    BY SlotWith
  <2>2. Owned([t EXCEPT !.err = 0]) /\ Owned([t EXCEPT !.drain = "done"])
    BY <1>1 DEF Slot, Owned
  <2>3. CASE Becomes(s, [t EXCEPT !.drain = "done"])
    BY <1>2, <2>1, <2>2, <2>3
  <2>4. PICK drain \in {"on", "done"} : drain = IF t.held THEN "on" ELSE "done"
    OBVIOUS
  <2>5. CASE Becomes(s, [t EXCEPT !.err = 0, !.drain = drain])
    <3>1. PICK t1 \in Slot : t1 = [t EXCEPT !.err = 0] /\ Owned(t1)
      BY <2>1, <2>2
    <3>2. PICK t2 \in Slot : t2 = [t1 EXCEPT !.drain = drain]
      BY SlotWith
    <3>3. t2 = [t EXCEPT !.err = 0, !.drain = drain]
      BY <3>1, <3>2
    <3>4. /\ t2.gen = t1.gen /\ t2.held = t1.held /\ t2.proc = t1.proc
          /\ t2.reaper = t1.reaper /\ t2.reapers = t1.reapers
      BY <3>2 DEF Slot
    <3>5. Owned(t2)
      BY <3>1, <3>4 DEF Owned
    <3> QED
      BY <1>2, <2>5, <3>3, <3>5
  <2> QED
    BY <1>1, <1>10, <2>3, <2>4, <2>5 DEF Drain
<1>11. CASE WriteAudio(s)
  <2>1. t.left - 1 \in 0..Chunks
    <3>1. t.left > 0
      BY <1>1, <1>11 DEF WriteAudio
    <3> QED
      BY <3>1, SlotFields, TranscoderAssumption
  <2>2. PICK t1 \in Slot : t1 = [t EXCEPT !.left = t.left - 1]
    BY <2>1, SlotWith
  <2>3. PICK t2 \in Slot : t2 = [t1 EXCEPT !.out = 1]
    BY SlotWith
  <2>4. t2 = [t EXCEPT !.left = @ - 1, !.out = 1]
    BY <2>2, <2>3
  <2>5. Owned([t EXCEPT !.left = @ - 1, !.out = 1])
    BY <1>1 DEF Slot, Owned
  <2> QED
    BY <1>1, <1>2, <1>11, <2>4, <2>5 DEF WriteAudio
<1>12. CASE WriteError(s)
  <2>1. t.errors - 1 \in 0..ErrorLines
    <3>1. t.errors > 0
      BY <1>1, <1>12 DEF WriteError
    <3> QED
      BY <3>1, SlotFields, TranscoderAssumption
  <2>2. PICK t1 \in Slot : t1 = [t EXCEPT !.errors = t.errors - 1]
    BY <2>1, SlotWith
  <2>3. PICK t2 \in Slot : t2 = [t1 EXCEPT !.err = 1]
    BY SlotWith
  <2>4. t2 = [t EXCEPT !.errors = @ - 1, !.err = 1]
    BY <2>2, <2>3
  <2>5. Owned([t EXCEPT !.errors = @ - 1, !.err = 1])
    BY <1>1 DEF Slot, Owned
  <2> QED
    BY <1>1, <1>2, <1>12, <2>4, <2>5 DEF WriteError
<1>13. CASE Exit(s) \/ Die(s) \/ Crash(s)
  <2>1. [t EXCEPT !.proc = "exited"] \in Slot /\ Owned([t EXCEPT !.proc = "exited"])
    BY <1>1, ZenonT(40) DEF Slot, Owned
  <2> QED
    BY <1>1, <1>2, <1>13, <2>1 DEF Exit, Die, Crash
<1>14. CASE Reap(s)
  <2>1. PICK t1 \in Slot : t1 = [t EXCEPT !.reaper = "done"]
    BY SlotWith
  <2>2. PICK t2 \in Slot : t2 = [t1 EXCEPT !.drain = "done"]
    BY SlotWith
  <2>3. t2 = [t EXCEPT !.reaper = "done", !.drain = "done"]
    BY <2>1, <2>2
  <2>4. Owned([t EXCEPT !.reaper = "done", !.drain = "done"])
    BY <1>1, <1>14 DEF Reap, Slot, Owned
  <2> QED
    BY <1>1, <1>2, <1>14, <2>3, <2>4 DEF Reap
<1>15. CASE ReapTimeout(s)
  <2>1. PICK t1 \in Slot : t1 = [t EXCEPT !.reaper = "killing"]
    BY SlotWith
  <2>2. PICK t2 \in Slot : t2 = [t1 EXCEPT !.signal = "kill"]
    BY SlotWith
  <2>3. t2 = AfterTerm(t)
    BY <2>1, <2>2 DEF AfterTerm
  <2>4. Owned([t EXCEPT !.reaper = "killing", !.signal = "kill"])
    BY <1>1 DEF Slot, Owned
  <2>5. [t EXCEPT !.reaper = "gave up"] \in Slot
    BY SlotWith
  <2>6. Owned([t EXCEPT !.reaper = "gave up"])
    BY <1>1 DEF Slot, Owned
  <2> QED
    BY <1>1, <1>2, <1>15, <2>3, <2>4, <2>5, <2>6 DEF ReapTimeout, AfterTerm
<1> QED
  BY <1>4, <1>5, <1>6, <1>7, <1>8, <1>9, <1>10, <1>11, <1>12, <1>13, <1>14, <1>15
     DEF Loop, Ffmpeg

-----------------------------------------------------------------------------
(* The streams.                                                            *)

\* A stream on its way: its response is one, and its body is what the headers
\* announced.
Sound(r, b) ==
    /\ r \in Response /\ b \in RawBody /\ (b.at # "none" => r.kind = "raw")
    /\ ServedAs(r) /\ IsPart(r) /\ OnTrack(b, r)

\* The parts of the invariant that no step of a stream changes.
Announcements ==
    \A a \in answer : a.source \in Sources /\ a.decision = decide(client, a.source, policy)
Inputs ==
    /\ policy \in Policies /\ source \in Sources /\ client \in Clients
    /\ file \in Sizes /\ Cardinality(answer) <= 1

\* What the assumption says of the inputs.
LEMMA InputTypes ==
  ASSUME Inputs
  PROVE  /\ policy \in Policy /\ source \in TrackRow /\ file \in Nat
         /\ client.maxTranscoding \in Nat
         /\ client.targets \in Seq([codec : STRING, protocol : STRING])
         /\ \A r \in Sources : r \in TrackRow
BY StreamingAssumption DEF Inputs, Policy, TrackRow

\* The invariant, stream by stream.
LEMMA IInvParts ==
  IInv <=> /\ Inputs /\ Announcements /\ TranscoderTypeOK
           /\ resp \in [Streams -> Response] /\ body \in [Streams -> RawBody]
           /\ \A s \in Streams : Owned(ts[s]) /\ Sound(resp[s], body[s])
BY DEF IInv, TypeOK, Inputs, Announcements, Sound

\* The same in the next state.
LEMMA IInvPartsNext ==
  IInv' <=> /\ Inputs' /\ Announcements' /\ TranscoderTypeOK'
            /\ resp' \in [Streams -> Response] /\ body' \in [Streams -> RawBody]
            /\ \A s \in Streams : Owned(ts'[s]) /\ Sound(resp[s], body[s])'
BY DEF IInv, TypeOK, Inputs, Announcements, Sound

\* A stream that was not asked for is sound.
LEMMA NothingSound == Sound(NoResp, NoBody)
<1>1. NoResp \in Response
  <2>1. NoRequest \in Request
    BY DEF NoRequest, Request
  <2>2. NoRow \in Sources \cup {NoRow}
    OBVIOUS
  <2> QED
    BY <2>1, <2>2 DEF NoResp, Response
<1>2. NoBody \in RawBody
  BY DEF NoBody, RawBody
<1>3. NoBody.at = "none" /\ NoResp.kind = "none"
  BY DEF NoBody, NoResp
<1> QED
  BY <1>1, <1>2, <1>3 DEF Sound, ServedAs, IsPart, OnTrack

\* A step of one stream that leaves it sound.
LEMMA StreamChange ==
  ASSUME IInv, UNCHANGED requestVars, NEW s \in Streams, NEW r, NEW b, Sound(r, b),
         resp' = [resp EXCEPT ![s] = r], body' = [body EXCEPT ![s] = b],
         TranscoderTypeOK', \A x \in Streams : Owned(ts'[x])
  PROVE  IInv'
<1>1. /\ Inputs /\ Announcements
      /\ resp \in [Streams -> Response] /\ body \in [Streams -> RawBody]
      /\ \A x \in Streams : Sound(resp[x], body[x])
  BY IInvParts
<1>2. r \in Response /\ b \in RawBody
  BY DEF Sound
<1>3. resp' \in [Streams -> Response] /\ body' \in [Streams -> RawBody]
  BY <1>1, <1>2
<1>4. Inputs' /\ Announcements'
  BY <1>1 DEF requestVars, Inputs, Announcements
<1>5. policy' = policy /\ file' = file
  BY DEF requestVars
<1>6. ASSUME NEW x \in Streams PROVE Sound(resp[x], body[x])'
  <2>1. PICK rx, bx : rx = resp'[x] /\ bx = body'[x] /\ Sound(rx, bx)
    <3>1. CASE x = s
      BY <1>1, <3>1
    <3>2. CASE x # s
      BY <1>1, <3>2
    <3> QED
      BY <3>1, <3>2
  <2>2. rx \in Response /\ bx \in RawBody /\ (bx.at # "none" => rx.kind = "raw") /\ IsPart(rx)
    BY <2>1 DEF Sound
  <2>3. ServedAs(resp[x])'
    BY <1>5, <2>1 DEF Sound, ServedAs
  <2>4. OnTrack(body[x], resp[x])'
    BY <1>5, <2>1 DEF Sound, OnTrack
  <2> QED
    BY <2>1, <2>2, <2>3, <2>4 DEF Sound
<1> QED
  BY <1>3, <1>4, <1>6, IInvPartsNext

\* A response with fields set to what they may be is a response.
LEMMA ResponseWith ==
  ASSUME NEW r \in Response
  PROVE  /\ \A x \in {"raw", "transcoded"} : [r EXCEPT !.kind = x] \in Response
         /\ \A x \in {200, 206} : [r EXCEPT !.status = x] \in Response
         /\ \A x \in Nat : [r EXCEPT !.first = x] \in Response
         /\ \A x \in Int : [r EXCEPT !.last = x] \in Response
         /\ \A x \in Nat : [r EXCEPT !.length = x] \in Response
         /\ \A x \in Nat : [r EXCEPT !.size = x] \in Response
         /\ \A x \in SUPPORTED_TRANSCODE_CODECS : [r EXCEPT !.format = x] \in Response
         /\ \A x \in Nat : [r EXCEPT !.bitrate = x] \in Response
         /\ \A x \in {"offset", "range"} : [r EXCEPT !.by = x] \in Response
         /\ \A x \in Request : [r EXCEPT !.asked = x] \in Response
         /\ \A x \in Sources : [r EXCEPT !.row = x] \in Response
<1>1. ASSUME NEW x \in {"raw", "transcoded"} PROVE [r EXCEPT !.kind = x] \in Response
  BY DEF Response
<1>2. ASSUME NEW x \in {200, 206} PROVE [r EXCEPT !.status = x] \in Response
  BY DEF Response
<1>3. ASSUME NEW x \in Nat PROVE [r EXCEPT !.first = x] \in Response
  BY DEF Response
<1>4. ASSUME NEW x \in Int PROVE [r EXCEPT !.last = x] \in Response
  BY DEF Response
<1>5. ASSUME NEW x \in Nat PROVE [r EXCEPT !.length = x] \in Response
  BY DEF Response
<1>6. ASSUME NEW x \in Nat PROVE [r EXCEPT !.size = x] \in Response
  BY DEF Response
<1>7. ASSUME NEW x \in SUPPORTED_TRANSCODE_CODECS PROVE [r EXCEPT !.format = x] \in Response
  BY DEF Response
<1>8. ASSUME NEW x \in Nat PROVE [r EXCEPT !.bitrate = x] \in Response
  BY DEF Response
<1>9. ASSUME NEW x \in {"offset", "range"} PROVE [r EXCEPT !.by = x] \in Response
  BY DEF Response
<1>10. ASSUME NEW x \in Request PROVE [r EXCEPT !.asked = x] \in Response
  BY DEF Response
<1>11. ASSUME NEW x \in Sources PROVE [r EXCEPT !.row = x] \in Response
  BY DEF Response
<1> QED
  BY <1>1, <1>2, <1>3, <1>4, <1>5, <1>6, <1>7, <1>8, <1>9, <1>10, <1>11

WithRequest(made, asked, row) == [made EXCEPT !.asked = asked, !.row = row]

\* What was asked for is written on the response, and changes nothing else of it.
LEMMA AskedOf ==
  ASSUME NEW made \in Response, NEW asked \in Request, NEW row \in Sources,
         NEW r, r = WithRequest(made, asked, row)
  PROVE  /\ r \in Response /\ r.asked = asked /\ r.row = row
         /\ r.kind = made.kind /\ r.status = made.status /\ r.first = made.first
         /\ r.last = made.last /\ r.length = made.length /\ r.size = made.size
         /\ r.format = made.format /\ r.by = made.by /\ r.bitrate = made.bitrate
<1>1. PICK r1 \in Response : r1 = [made EXCEPT !.asked = asked]
  BY DEF Response
<1>2. [r1 EXCEPT !.row = row] \in Response
  BY DEF Response
<1>3. r = [r1 EXCEPT !.row = row]
  BY <1>1 DEF WithRequest
<1>4. r.asked = asked /\ r.row = row
  BY <1>1, <1>3 DEF Response
<1>5. r.kind = made.kind /\ r.status = made.status /\ r.first = made.first /\ r.last = made.last
  BY <1>1, <1>3 DEF Response
<1>6. r.length = made.length /\ r.size = made.size /\ r.format = made.format /\ r.by = made.by
      /\ r.bitrate = made.bitrate
  BY <1>1, <1>3 DEF Response
<1> QED
  BY <1>2, <1>3, <1>4, <1>5, <1>6

\* A body that is about to be read counts the bytes from start to end.
LEMMA ChunksOf ==
  ASSUME NEW start \in Nat, NEW end \in Int, end - start + 1 \in Nat
  PROVE  LET b == _async_file_chunks(start, end) IN
         /\ b \in RawBody /\ b.at = "headers" /\ b.position = start
         /\ b.remaining = end - start + 1 /\ b.sent = 0
BY DEF _async_file_chunks, NoBody, RawBody

\* The headers of a raw response announce the file, or a part of it, and its
\* body counts as much.
LEMMA RawHeaders ==
  ASSUME NEW wanted \in Seq(Nat), file \in Nat
  PROVE  LET raw == _build_raw_response(wanted).headers
             b == _build_raw_response(wanted).content IN
         /\ b \in RawBody /\ b.at = "headers" /\ b.position = raw.first
         /\ b.remaining = raw.length /\ b.sent = 0
         /\ raw \in Response /\ raw.kind = "raw" /\ raw.size = file
         /\ raw.first + raw.length <= file
         /\ raw.status = 206 =>
               raw.first <= raw.last /\ raw.last < file /\ raw.last + 1 = raw.first + raw.length
<1> DEFINE range == _parse_range(wanted, file)
           base == [NoResp EXCEPT !.kind = "raw", !.size = file]
           raw == _build_raw_response(wanted).headers
           b == _build_raw_response(wanted).content
<1>1. NoResp \in Response
  BY NothingSound DEF Sound
<1>2. PICK r1 \in Response : r1 = [NoResp EXCEPT !.kind = "raw"]
  BY <1>1, ResponseWith
<1>3. PICK r2 \in Response : r2 = [r1 EXCEPT !.size = file]
  BY ResponseWith
<1>4. r2 = base /\ r2.kind = "raw" /\ r2.size = file /\ r2.first = 0
  BY <1>2, <1>3 DEF NoResp
<1> HIDE DEF base
<1>5. CASE range = Whole
  <2>1. /\ raw = [r2 EXCEPT !.status = 200, !.length = file]
        /\ b = _async_file_chunks(0, file - 1)
    <3>1. PICK h : h = [r2 EXCEPT !.status = 200, !.length = file]
      OBVIOUS
    <3>2. PICK c : c = _async_file_chunks(0, file - 1)
      OBVIOUS
    <3>3. _build_raw_response(wanted) =
            [headers |-> [base EXCEPT !.status = 200, !.length = file],
             content |-> _async_file_chunks(0, file - 1)]
      BY <1>5, Zenon DEF _build_raw_response, base, range
    <3>4. _build_raw_response(wanted) = [headers |-> h, content |-> c]
      BY <1>4, <3>1, <3>2, <3>3, Zenon
    <3>5. _build_raw_response(wanted).headers = h /\ _build_raw_response(wanted).content = c
      BY <3>4
    <3> QED
      BY <3>1, <3>2, <3>5, Zenon
  <2> HIDE DEF raw, b, range
  <2>2. PICK r3 \in Response : r3 = [r2 EXCEPT !.status = 200]
    BY ResponseWith
  <2>3. [r3 EXCEPT !.length = file] \in Response
    BY ResponseWith
  <2>4. raw = [r3 EXCEPT !.length = file] /\ raw \in Response
    BY <2>1, <2>2, <2>3
  <2>5. /\ raw.kind = r2.kind /\ raw.size = r2.size /\ raw.status = 200
        /\ raw.first = r2.first /\ raw.length = file
    <3>1. /\ r3.kind = r2.kind /\ r3.size = r2.size /\ r3.status = 200
          /\ r3.first = r2.first
      BY <2>2 DEF Response
    <3>2. /\ raw.kind = r3.kind /\ raw.size = r3.size /\ raw.status = r3.status
          /\ raw.first = r3.first /\ raw.length = file
      BY <2>4 DEF Response
    <3> QED
      BY <3>1, <3>2
  <2>6. (file - 1) - 0 + 1 = file /\ file - 1 \in Int
    OBVIOUS
  <2>7. b \in RawBody /\ b.at = "headers" /\ b.position = 0 /\ b.remaining = file /\ b.sent = 0
    BY <2>1, <2>6, ChunksOf
  <2> QED
    BY <1>4, <2>4, <2>5, <2>7 DEF raw, b
<1>6. CASE range # Whole
  <2>1. PICK first \in Nat, last \in Nat :
           first = range[1] /\ last = range[2] /\ first <= last /\ last < file
    BY <1>6, RangeType
  <2>2. PICK length \in Nat : length = last - first + 1
    BY <2>1
  <2>3. /\ raw = [r2 EXCEPT !.status = 206, !.first = first, !.last = last, !.length = length]
        /\ b = _async_file_chunks(first, last)
    <3>1. PICK h : h = [r2 EXCEPT !.status = 206, !.first = first, !.last = last,
                                  !.length = length]
      OBVIOUS
    <3>2. PICK c : c = _async_file_chunks(first, last)
      OBVIOUS
    <3>3. _build_raw_response(wanted) =
            [headers |-> [base EXCEPT !.status = 206, !.first = range[1], !.last = range[2],
                                      !.length = ContentLength(range)],
             content |-> _async_file_chunks(range[1], range[2])]
      BY <1>6, Zenon DEF _build_raw_response, base, range
    <3>4. ContentLength(range) = length
      <4> HIDE DEF range, raw, b
      <4> QED
        BY <2>1, <2>2 DEF ContentLength
    <3>5. _build_raw_response(wanted) = [headers |-> h, content |-> c]
      BY <1>4, <2>1, <3>1, <3>2, <3>3, <3>4, Zenon
    <3>6. _build_raw_response(wanted).headers = h /\ _build_raw_response(wanted).content = c
      BY <3>5
    <3> QED
      BY <3>1, <3>2, <3>6, Zenon
  <2> HIDE DEF raw, b, range
  <2>4. PICK r3 \in Response : r3 = [r2 EXCEPT !.status = 206]
    <3>1. [r2 EXCEPT !.status = 206] \in Response
      <4>1. \A x \in {200, 206} : [r2 EXCEPT !.status = x] \in Response
        BY ResponseWith
      <4> QED
        BY <4>1
    <3> QED
      BY <3>1
  <2>5. PICK r4 \in Response : r4 = [r3 EXCEPT !.first = first]
    BY ResponseWith
  <2>6. PICK r5 \in Response : r5 = [r4 EXCEPT !.last = last]
    BY last \in Int, ResponseWith
  <2>7. [r5 EXCEPT !.length = length] \in Response
    BY ResponseWith
  <2>8. raw \in Response
    BY <2>3, <2>4, <2>5, <2>6, <2>7
  <2>9. /\ raw.kind = r2.kind /\ raw.size = r2.size /\ raw.status = 206
        /\ raw.first = first /\ raw.last = last /\ raw.length = length
    <3>1. r3.kind = r2.kind /\ r3.size = r2.size /\ r3.status = 206
      BY <2>4 DEF Response
    <3>2. r4.kind = r3.kind /\ r4.size = r3.size /\ r4.status = r3.status /\ r4.first = first
      BY <2>5 DEF Response
    <3>3. /\ r5.kind = r4.kind /\ r5.size = r4.size /\ r5.status = r4.status
          /\ r5.first = r4.first /\ r5.last = last
      BY <2>6 DEF Response
    <3>4. raw = [r5 EXCEPT !.length = length]
      BY <2>3, <2>4, <2>5, <2>6
    <3>5. /\ raw.kind = r5.kind /\ raw.size = r5.size /\ raw.status = r5.status
          /\ raw.first = r5.first /\ raw.last = r5.last /\ raw.length = length
      BY <3>4 DEF Response
    <3> QED
      BY <3>1, <3>2, <3>3, <3>5
  <2>10. raw.first + raw.length <= file /\ raw.last + 1 = raw.first + raw.length
    BY <2>1, <2>2, <2>9
  <2>11. b \in RawBody /\ b.at = "headers" /\ b.position = first /\ b.remaining = length
         /\ b.sent = 0
    BY <2>1, <2>2, <2>3, ChunksOf
  <2> QED
    BY <1>4, <2>1, <2>8, <2>9, <2>10, <2>11 DEF raw, b
<1> QED
  BY <1>5, <1>6

\* The headers of a transcoded response announce the format it has, and a part
\* of the track unless it was sought by time.
LEMMA TranscodedHeaders ==
  ASSUME NEW wanted \in Seq(Nat), NEW offset \in Int, NEW preset,
         preset.format \in SUPPORTED_TRANSCODE_CODECS, preset.bitrate \in BITRATES,
         NEW made \in _build_transcoded_response(preset, wanted, offset)
  PROVE  made \in Response /\ made.kind = "transcoded" /\ made.format = preset.format
         /\ made.bitrate = preset.bitrate /\ IsPart(made)
<1> DEFINE total == Duration * RATE
           range == _parse_range(wanted, total)
           start == IF range = Whole THEN 0 ELSE range[1]
           base == [NoResp EXCEPT !.kind = "transcoded", !.size = total,
                                  !.format = preset.format, !.bitrate = preset.bitrate]
           From(at, by) == [base EXCEPT !.status = 206, !.first = at, !.last = total - 1,
                                        !.by = by]
<1>1. total \in Nat
  <2>1. Duration \in Nat /\ RATE \in Nat
    BY StreamingAssumption
  <2> QED
    BY <2>1
<1>2. start \in Nat /\ (start > 0 => start <= total - 1)
  <2>1. CASE range = Whole
    BY <2>1
  <2>2. CASE range # Whole
    <3>1. range[1] \in Nat /\ range[2] \in Nat /\ range[1] <= range[2] /\ range[2] < total
      BY <1>1, <2>2, RangeType
    <3> HIDE DEF range
    <3> QED
      BY <1>1, <2>2, <3>1
  <2> QED
    BY <2>1, <2>2
<1> HIDE DEF total, range, start
<1>3. base \in Response /\ base.kind = "transcoded" /\ base.format = preset.format
      /\ base.bitrate = preset.bitrate /\ base.size = total
  <2>1. NoResp \in Response /\ preset.bitrate \in Nat
    BY NothingSound DEF Sound, BITRATES
  <2>2. PICK r1 \in Response : r1 = [NoResp EXCEPT !.kind = "transcoded"]
    BY <2>1, ResponseWith
  <2>3. PICK r2 \in Response : r2 = [r1 EXCEPT !.size = total]
    BY <1>1, ResponseWith
  <2>4. PICK r3 \in Response : r3 = [r2 EXCEPT !.format = preset.format]
    BY ResponseWith
  <2>5. PICK r4 \in Response : r4 = [r3 EXCEPT !.bitrate = preset.bitrate]
    BY <2>1, ResponseWith
  <2>6. base = r4
    BY <2>2, <2>3, <2>4, <2>5
  <2>7. base.kind = "transcoded" /\ base.format = preset.format /\ base.size = total
        /\ base.bitrate = preset.bitrate
    BY DEF NoResp
  <2> QED
    BY <2>6, <2>7
<1>4. \/ offset > 0 /\ total > 0 /\ made = From(offset * RATE, "offset")
      \/ start > 0 /\ \E at \in Announced(start) : made = From(at, "range")
      \/ made = [base EXCEPT !.status = 200]
  BY DEF _build_transcoded_response, total, range, start
<1> HIDE DEF base
<1>5. ASSUME NEW at \in Nat, NEW by \in {"offset", "range"}
      PROVE  LET r == From(at, by) IN
             /\ r \in Response /\ r.kind = "transcoded" /\ r.format = preset.format
             /\ r.bitrate = preset.bitrate
             /\ r.by = by /\ r.first = at /\ r.last = total - 1 /\ r.size = total
  <2>1. PICK r1 \in Response : r1 = [base EXCEPT !.status = 206]
    BY <1>3, ResponseWith, ZenonT(40)
  <2>2. PICK r2 \in Response : r2 = [r1 EXCEPT !.first = at]
    BY ResponseWith
  <2>3. total - 1 \in Int
    BY <1>1
  <2>4. PICK r3 \in Response : r3 = [r2 EXCEPT !.last = total - 1]
    BY <2>3, ResponseWith
  <2>5. PICK r4 \in Response : r4 = [r3 EXCEPT !.by = by]
    BY ResponseWith
  <2>6. From(at, by) = r4
    BY <2>1, <2>2, <2>4, <2>5
  <2>7. /\ From(at, by).kind = base.kind /\ From(at, by).format = base.format
        /\ From(at, by).bitrate = base.bitrate
        /\ From(at, by).by = by /\ From(at, by).first = at
        /\ From(at, by).last = total - 1 /\ From(at, by).size = base.size
    BY <1>3 DEF Response
  <2> QED
    BY <1>3, <2>6, <2>7
<1> HIDE DEF From
<1>6. CASE offset > 0 /\ total > 0 /\ made = From(offset * RATE, "offset")
  <2>1. offset * RATE \in Nat
    <3>1. RATE \in Nat /\ offset \in Nat
      BY <1>6, StreamingAssumption
    <3> QED
      BY <3>1
  <2>2. PICK at \in Nat : at = offset * RATE
    BY <2>1
  <2>3. /\ made \in Response /\ made.kind = "transcoded" /\ made.format = preset.format
        /\ made.bitrate = preset.bitrate /\ made.by = "offset"
        /\ made.first = at /\ made.last = total - 1 /\ made.size = total
    BY <1>5, <1>6, <2>2
  <2>4. at >= total \/ (0 <= at /\ at <= total - 1 /\ total - 1 < total)
    BY <1>1, <2>2
  <2> QED
    BY <2>3, <2>4 DEF IsPart
<1>7. ASSUME start > 0, NEW at \in Announced(start), made = From(at, "range")
      PROVE  made \in Response /\ made.kind = "transcoded" /\ made.format = preset.format
             /\ made.bitrate = preset.bitrate /\ IsPart(made)
  <2>1. at \in Nat /\ at <= start
    BY <1>2, <1>7 DEF Announced
  <2>2. /\ made \in Response /\ made.kind = "transcoded" /\ made.format = preset.format
        /\ made.bitrate = preset.bitrate
        /\ made.first = at /\ made.last = total - 1 /\ made.size = total
    BY <1>5, <1>7, <2>1
  <2>3. 0 <= at /\ at <= total - 1 /\ total - 1 < total
    BY <1>1, <1>2, <1>7, <2>1
  <2> QED
    BY <2>2, <2>3 DEF IsPart
<1>8. CASE made = [base EXCEPT !.status = 200]
  <2>1. [base EXCEPT !.status = 200] \in Response
    BY <1>3, ResponseWith, ZenonT(40)
  <2>2. made.kind = base.kind /\ made.format = base.format /\ made.status = 200
        /\ made.bitrate = base.bitrate
    BY <1>3, <1>8 DEF Response
  <2> QED
    BY <1>3, <1>8, <2>1, <2>2 DEF IsPart
<1> QED
  BY <1>4, <1>6, <1>7, <1>8

\* A stream that is answered is sound: what it says is what is served.
LEMMA RespondKeepsIInv ==
  ASSUME IInv, NEW s \in Streams, NEW asked \in Request, NEW wanted \in Seq(Nat),
         NEW offset \in Int, Respond(s, asked.format, asked.maxBitRate, wanted, offset)
  PROVE  IInv'
<1> DEFINE preset == Served(policy, source, asked.format, asked.maxBitRate)
           To(made) == [made EXCEPT !.asked = asked, !.row = source]
<1>1. /\ Inputs /\ source \in Sources /\ TranscoderTypeOK
      /\ \A x \in Streams : Owned(ts[x])
      /\ resp \in [Streams -> Response] /\ body \in [Streams -> RawBody]
      /\ \A x \in Streams : Sound(resp[x], body[x])
  BY IInvParts DEF Inputs
<1>2. /\ preset.raw \in BOOLEAN
      /\ ~preset.raw => /\ preset.format \in SUPPORTED_TRANSCODE_CODECS
                        /\ preset.bitrate \in BITRATES
  <2>1. asked.maxBitRate \in Int
    BY DEF Request
  <2> QED
    BY <1>1, <2>1, InputTypes, ServedType
<1>3. resp[s] = NoResp /\ UNCHANGED requestVars /\ UNCHANGED ts
  BY DEF Respond
<1>4. asked = [format |-> asked.format, maxBitRate |-> asked.maxBitRate]
  BY DEF Request
<1>5. /\ UNCHANGED TranscoderTypeOK
      /\ \A x \in Streams : Owned(ts'[x])
  BY <1>1, <1>3 DEF TranscoderTypeOK
<1>6. CASE preset.raw
  <2> DEFINE raw == _build_raw_response(wanted).headers
             b == _build_raw_response(wanted).content
  <2>1. resp' = [resp EXCEPT ![s] = To(raw)] /\ body' = [body EXCEPT ![s] = b]
    BY <1>4, <1>6 DEF Respond
  <2>2. /\ b \in RawBody /\ b.at = "headers" /\ b.position = raw.first
        /\ b.remaining = raw.length /\ b.sent = 0
        /\ raw \in Response /\ raw.kind = "raw" /\ raw.size = file
        /\ raw.first + raw.length <= file
        /\ raw.status = 206 =>
              raw.first <= raw.last /\ raw.last < file /\ raw.last + 1 = raw.first + raw.length
    BY <1>1, InputTypes, RawHeaders
  <2>3. raw.first \in Nat /\ raw.length \in Nat
    BY <2>2 DEF Response
  <2> HIDE DEF raw, b
  <2>4. PICK r : r = To(raw)
    OBVIOUS
  <2>5. /\ r \in Response /\ r.asked = asked /\ r.row = source /\ r.kind = "raw"
        /\ r.status = raw.status /\ r.first = raw.first /\ r.last = raw.last
        /\ r.length = raw.length /\ r.size = file
    <3>1. source \in Sources /\ raw \in Response /\ raw.size = file /\ raw.kind = "raw"
      BY <1>1, <2>2
    <3>2. r = WithRequest(raw, asked, source)
      BY <2>4 DEF WithRequest
    <3> QED
      BY <3>1, <3>2, AskedOf
  <2>6. PICK c : c = b
    OBVIOUS
  <2>7. /\ c \in RawBody /\ c.at = "headers" /\ c.position = raw.first
        /\ c.remaining = raw.length /\ c.sent = 0
    BY <2>2, <2>6
  <2>8. ServedAs(r)
    BY <1>1, <1>6, <2>5 DEF ServedAs
  <2>9. IsPart(r)
    BY <2>2, <2>3, <2>5 DEF IsPart
  <2>10. OnTrack(c, r)
    BY <2>2, <2>3, <2>5, <2>7 DEF OnTrack
  <2>11. Sound(r, c)
    BY <2>5, <2>7, <2>8, <2>9, <2>10 DEF Sound
  <2>12. resp' = [resp EXCEPT ![s] = r] /\ body' = [body EXCEPT ![s] = c]
    BY <2>1, <2>4, <2>6
  <2> QED
    BY <1>1, <1>3, <1>5, <2>11, <2>12, StreamChange
<1>7. CASE ~preset.raw
  <2>1. PICK made \in _build_transcoded_response(preset, wanted, offset) :
           resp' = [resp EXCEPT ![s] = To(made)]
    BY <1>4, <1>7 DEF Respond
  <2>2. body' = body
    BY <1>7 DEF Respond
  <2> HIDE DEF preset
  <2>3. made \in Response /\ made.kind = "transcoded" /\ made.format = preset.format
        /\ made.bitrate = preset.bitrate /\ IsPart(made)
    BY <1>2, <1>7, TranscodedHeaders
  <2>4. PICK r : r = To(made)
    OBVIOUS
  <2>5. /\ r \in Response /\ r.asked = asked /\ r.row = source /\ r.kind = "transcoded"
        /\ r.format = preset.format /\ r.bitrate = preset.bitrate
        /\ r.status = made.status /\ r.first = made.first
        /\ r.last = made.last /\ r.size = made.size /\ r.by = made.by
    <3>1. source \in Sources /\ made \in Response /\ made.kind = "transcoded"
          /\ made.format = preset.format /\ made.bitrate = preset.bitrate
      BY <1>1, <2>3
    <3>2. r = WithRequest(made, asked, source)
      BY <2>4 DEF WithRequest
    <3> QED
      BY <3>1, <3>2, AskedOf
  <2>6. ServedAs(r)
    BY <1>1, <1>7, <2>5 DEF ServedAs, preset
  <2>7. IsPart(r)
    BY <2>3, <2>5 DEF IsPart
  <2>8. body[s] \in RawBody /\ body[s].at = "none"
    <3>1. NoResp.kind = "none"
      BY DEF NoResp
    <3>2. body[s] \in RawBody /\ body[s].at # "none" => resp[s].kind = "raw"
      BY <1>1 DEF Sound
    <3> QED
      BY <1>1, <1>3, <3>1, <3>2
  <2>9. Sound(r, body[s])
    BY <2>5, <2>6, <2>7, <2>8 DEF Sound, OnTrack
  <2>10. resp' = [resp EXCEPT ![s] = r] /\ body' = [body EXCEPT ![s] = body[s]]
    BY <1>1, <2>1, <2>2, <2>4
  <2> QED
    BY <1>1, <1>3, <1>5, <2>9, <2>10, StreamChange
<1> QED
  BY <1>2, <1>6, <1>7

\* The number of units read is what both the file and the headers have left.
LEMMA ReadSizeType ==
  ASSUME Inputs, NEW s \in Streams, body[s] \in RawBody, ReadSize(s) > 0
  PROVE  /\ ReadSize(s) \in Nat /\ ReadSize(s) <= body[s].remaining
<1>1. /\ body[s].remaining \in Nat /\ body[s].position \in Nat /\ file \in Nat /\ CHUNK \in Nat
  BY InputTypes, StreamingAssumption DEF RawBody
<1> QED
  BY <1>1 DEF ReadSize, Available, Least

\* Opening and reading a file leaves the stream on its way.
LEMMA BodyKeepsIInv ==
  ASSUME IInv, NEW s \in Streams, OpenFile(s) \/ ReadChunk(s) \/ CloseFile(s)
  PROVE  IInv'
<1>1. /\ Inputs /\ TranscoderTypeOK /\ \A x \in Streams : Owned(ts[x])
      /\ resp \in [Streams -> Response] /\ body \in [Streams -> RawBody]
      /\ Sound(resp[s], body[s])
  BY IInvParts
<1>2. UNCHANGED requestVars /\ UNCHANGED ts
  BY DEF OpenFile, ReadChunk, CloseFile
<1>3. TranscoderTypeOK' /\ \A x \in Streams : Owned(ts'[x])
  BY <1>1, <1>2 DEF TranscoderTypeOK
<1>4. PICK r, b : r = resp[s] /\ b = body[s]
  OBVIOUS
<1>5. /\ b.position \in Nat /\ b.remaining \in Nat /\ b.sent \in Nat
      /\ r.first \in Nat /\ r.length \in Nat
  BY <1>1, <1>4 DEF Sound, Response, RawBody
<1>6. CASE OpenFile(s)
  <2>1. PICK c : c = [b EXCEPT !.at = "open"]
    OBVIOUS
  <2>2. /\ c \in RawBody /\ c.at = "open" /\ c.position = b.position /\ c.sent = b.sent
        /\ c.remaining = b.remaining /\ c.edited = b.edited
    BY <1>1, <1>4, <2>1 DEF Sound, RawBody
  <2>3. b.at # "none"
    BY <1>4, <1>6 DEF OpenFile
  <2>4. Sound(r, c)
    BY <1>1, <1>4, <2>2, <2>3 DEF Sound, OnTrack
  <2>5. resp' = [resp EXCEPT ![s] = r] /\ body' = [body EXCEPT ![s] = c]
    BY <1>1, <1>4, <1>6, <2>1 DEF OpenFile
  <2> QED
    BY <1>2, <1>3, <2>4, <2>5, StreamChange
<1>7. CASE ReadChunk(s)
  <2>1. PICK n \in Nat : n = ReadSize(s) /\ n <= b.remaining
    BY <1>1, <1>4, <1>7, ReadSizeType DEF ReadChunk, Sound
  <2>2. /\ b.position + n \in Nat /\ b.remaining - n \in Nat /\ b.sent + n \in Nat
    BY <1>5, <2>1
  <2>3. PICK c1 \in RawBody : c1 = [b EXCEPT !.position = b.position + n]
    BY <1>1, <1>4, <2>2 DEF Sound, RawBody
  <2>4. PICK c2 \in RawBody : c2 = [c1 EXCEPT !.remaining = b.remaining - n]
    BY <2>2 DEF RawBody
  <2>5. PICK c \in RawBody : c = [c2 EXCEPT !.sent = b.sent + n]
    BY <2>2 DEF RawBody
  <2>6. /\ c.at = b.at /\ c.edited = b.edited /\ c.position = b.position + n
        /\ c.remaining = b.remaining - n /\ c.sent = b.sent + n
    BY <1>1, <1>4, <2>3, <2>4, <2>5 DEF Sound, RawBody
  <2>7. c = [b EXCEPT !.position = @ + n, !.remaining = @ - n, !.sent = @ + n]
    <3>1. c1.remaining = b.remaining /\ c2.sent = b.sent
      BY <1>1, <1>4, <2>3, <2>4 DEF Sound, RawBody
    <3> QED
      BY <2>3, <2>4, <2>5, <3>1
  <2>8. OnTrack(c, r)
    BY <1>1, <1>4, <1>5, <2>1, <2>6 DEF Sound, OnTrack
  <2>9. Sound(r, c)
    BY <1>1, <1>4, <2>6, <2>8 DEF Sound
  <2>10. resp' = [resp EXCEPT ![s] = r] /\ body' = [body EXCEPT ![s] = c]
    <3>1. body' = [body EXCEPT ![s] = [b EXCEPT !.position = @ + n, !.remaining = @ - n,
                                                !.sent = @ + n]]
      BY <1>4, <1>7, <2>1 DEF ReadChunk
    <3>2. resp' = [resp EXCEPT ![s] = r]
      BY <1>1, <1>4, <1>7 DEF ReadChunk
    <3> QED
      BY <2>7, <3>1, <3>2
  <2> QED
    BY <1>2, <1>3, <2>9, <2>10, StreamChange
<1>8. CASE CloseFile(s)
  <2>1. resp' = [resp EXCEPT ![s] = NoResp] /\ body' = [body EXCEPT ![s] = NoBody]
    BY <1>8 DEF CloseFile
  <2> QED
    BY <1>2, <1>3, <2>1, NothingSound, StreamChange
<1> QED
  BY <1>6, <1>7, <1>8

\* A transcoded stream that begins, runs, ends or is given up is sound.
LEMMA RunKeepsIInv ==
  ASSUME IInv, NEW s \in Streams, OpenBody(s) \/ RunBody(s) \/ Unasked(s)
  PROVE  IInv'
<1>1. /\ Inputs /\ TranscoderTypeOK /\ \A x \in Streams : Owned(ts[x])
      /\ resp \in [Streams -> Response] /\ body \in [Streams -> RawBody]
      /\ Sound(resp[s], body[s])
  BY IInvParts
<1>2. UNCHANGED requestVars /\ UNCHANGED body /\ resp[s].kind = "transcoded"
  BY DEF OpenBody, RunBody, Unasked
<1>3. TranscoderTypeOK' /\ \A x \in Streams : Owned(ts'[x])
  <2>1. CASE OpenBody(s) \/ RunBody(s)
    BY <1>1, <2>1, ProcessStep DEF OpenBody, RunBody
  <2>2. CASE Unasked(s)
    BY <1>1, <2>2 DEF Unasked, TranscoderTypeOK
  <2> QED
    BY <2>1, <2>2
<1>4. PICK r, b : r = resp[s] /\ b = body[s]
  OBVIOUS
<1>5. b.at = "none" /\ b \in RawBody
  BY <1>1, <1>2, <1>4 DEF Sound
<1>6. resp' = [resp EXCEPT ![s] = r] \/ resp' = [resp EXCEPT ![s] = NoResp]
  BY <1>1, <1>4 DEF OpenBody, RunBody, Unasked
<1>7. body' = [body EXCEPT ![s] = b]
  BY <1>1, <1>2, <1>4
<1>8. Sound(r, b) /\ Sound(NoResp, b)
  BY <1>1, <1>4, <1>5, NothingSound DEF Sound, OnTrack
<1> QED
  BY <1>2, <1>3, <1>6, <1>7, <1>8, StreamChange

\* Where there are parameters, a stream is announced.
LEMMA AnnouncedWithParams ==
  ASSUME IInv, NEW a \in answer, NEW p \in a.decision.params
  PROVE  \E t : t \in a.decision.stream
<1> DEFINE target == _pick_transcode_target(client.targets, policy.format)
           kbps == _target_kbps(client, a.source)
           transcodes == /\ ~_direct_play(client, a.source) /\ policy.enabled
                         /\ target # NoTarget
<1> HIDE DEF target, kbps, transcodes
<1>1. a.decision = decide(client, a.source, policy)
  BY IInvParts DEF Announcements
<1>2. /\ a.decision.params = IF transcodes THEN {transcode_params(target, kbps)} ELSE {}
      /\ a.decision.stream =
            IF transcodes THEN {[codec |-> target.codec, kbps |-> kbps]} ELSE {}
  BY <1>1 DEF decide, target, kbps, transcodes
<1> QED
  BY <1>2

\* The parameters that are announced are a request.
LEMMA ParamsType ==
  ASSUME IInv, NEW a \in answer, NEW p \in a.decision.params
  PROVE  p \in Request
<1>1. Inputs /\ a.source \in Sources /\ a.decision = decide(client, a.source, policy)
  BY IInvParts DEF Announcements
<1>2. PICK t : t \in a.decision.stream
  BY AnnouncedWithParams
<1>3. /\ t.codec \in SUPPORTED_TRANSCODE_CODECS /\ t.kbps \in Nat
      /\ a.decision.params = {[format |-> t.codec, maxBitRate |-> t.kbps]}
  BY <1>1, <1>2, InputTypes, WhatIsAnnounced
<1>4. t.codec \in Formats \cup SUPPORTED_TRANSCODE_CODECS \cup {""}
  BY <1>3
<1>6. t.kbps \in Int
  BY <1>3
<1>5. p = [format |-> t.codec, maxBitRate |-> t.kbps]
  BY <1>3
<1> QED
  BY <1>4, <1>5, <1>6 DEF Request

\* Whatever a request asks for, its answer is sound.
LEMMA StreamKeepsIInv ==
  ASSUME IInv, NEW s \in Streams, Stream(s) \/ StreamAsDecided(s) \/ Download(s)
  PROVE  IInv'
<1>1. CASE Stream(s)
  <2>1. PICK format \in Formats, n \in BitRates, wanted \in Headers, offset \in Offsets :
           Respond(s, format, n, wanted, offset)
    BY <1>1 DEF Stream
  <2>2. PICK asked \in Request : asked = [format |-> format, maxBitRate |-> n]
    BY StreamingAssumption DEF Request
  <2>3. wanted \in Seq(Nat) /\ offset \in Int
    BY StreamingAssumption
  <2>4. asked.format = format /\ asked.maxBitRate = n
    BY <2>2
  <2> QED
    BY <2>1, <2>3, <2>4, RespondKeepsIInv
<1>2. CASE StreamAsDecided(s)
  <2>1. PICK a \in answer : \E p \in a.decision.params :
           Respond(s, p.format, p.maxBitRate, << >>, -1)
    BY <1>2 DEF StreamAsDecided
  <2>2. PICK p \in a.decision.params : Respond(s, p.format, p.maxBitRate, << >>, -1)
    BY <2>1
  <2>3. p \in Request /\ << >> \in Seq(Nat) /\ -1 \in Int
    BY ParamsType
  <2> QED
    BY <2>2, <2>3, RespondKeepsIInv
<1>3. CASE Download(s)
  <2>1. PICK wanted \in Headers : Respond(s, "", -1, wanted, -1)
    BY <1>3 DEF Download
  <2>2. PICK asked \in Request : asked = [format |-> "", maxBitRate |-> -1]
    <3>1. "" \in Formats \cup SUPPORTED_TRANSCODE_CODECS \cup {""} /\ -1 \in Int
      OBVIOUS
    <3> QED
      BY <3>1 DEF Request
  <2>3. wanted \in Seq(Nat) /\ -1 \in Int
    BY StreamingAssumption
  <2>4. asked.format = "" /\ asked.maxBitRate = -1
    BY <2>2
  <2> QED
    BY <2>1, <2>3, <2>4, RespondKeepsIInv
<1> QED
  BY <1>1, <1>2, <1>3

\* A decision is announced as it was computed.
LEMMA DecisionKeepsIInv == ASSUME IInv, GetTranscodeDecision PROVE IInv'
<1>1. /\ Inputs /\ TranscoderTypeOK /\ \A x \in Streams : Owned(ts[x])
      /\ resp \in [Streams -> Response] /\ body \in [Streams -> RawBody]
      /\ \A x \in Streams : Sound(resp[x], body[x])
  BY IInvParts
<1>2. UNCHANGED <<policy, source, file, client, resp, body, ts>>
  BY DEF GetTranscodeDecision
<1>3. PICK a : a = [decision |-> decide(client, source, policy), source |-> source]
  OBVIOUS
<1>4. answer' = {a} /\ a.source = source /\ a.decision = decide(client, source, policy)
  BY <1>3 DEF GetTranscodeDecision
<1>5. Cardinality({a}) = 1
  BY FS_Singleton
<1>6. Inputs'
  BY <1>1, <1>2, <1>4, <1>5 DEF Inputs
<1>7. Announcements'
  BY <1>1, <1>2, <1>4 DEF Inputs, Announcements
<1>8. \A x \in Streams : Sound(resp[x], body[x])'
  BY <1>1, <1>2 DEF Sound, ServedAs, OnTrack
<1> QED
  BY <1>1, <1>2, <1>6, <1>7, <1>8, IInvPartsNext DEF TranscoderTypeOK

\* A row that is scanned again is not the row of what is already served.
LEMMA RescanKeepsIInv == ASSUME IInv, NEW row \in Sources, Rescan(row) PROVE IInv'
<1>1. /\ Inputs /\ Announcements /\ TranscoderTypeOK /\ \A x \in Streams : Owned(ts[x])
      /\ resp \in [Streams -> Response] /\ body \in [Streams -> RawBody]
      /\ \A x \in Streams : Sound(resp[x], body[x])
  BY IInvParts
<1>2. source' = row /\ UNCHANGED <<policy, file, client, answer, resp, body, ts>>
  BY DEF Rescan
<1>3. Inputs' /\ Announcements'
  BY <1>1, <1>2 DEF Inputs, Announcements
<1>4. \A x \in Streams : Sound(resp[x], body[x])'
  BY <1>1, <1>2 DEF Sound, ServedAs, OnTrack
<1> QED
  BY <1>1, <1>2, <1>3, <1>4, IInvPartsNext DEF TranscoderTypeOK

\* A body whose file is edited is marked, and promises less.
LEMMA EditKeepsIInv == ASSUME IInv, NEW size \in Sizes, Edit(size) PROVE IInv'
<1>1. /\ Inputs /\ Announcements /\ TranscoderTypeOK /\ \A x \in Streams : Owned(ts[x])
      /\ resp \in [Streams -> Response] /\ body \in [Streams -> RawBody]
      /\ \A x \in Streams : Sound(resp[x], body[x])
  BY IInvParts
<1>2. file' = size /\ UNCHANGED <<policy, source, client, answer, resp, ts>>
  BY DEF Edit
<1>3. Inputs' /\ Announcements'
  BY <1>1, <1>2 DEF Inputs, Announcements
<1>4. ASSUME NEW x \in Streams
      PROVE  body'[x] \in RawBody /\ Sound(resp[x], body[x])'
  <2>1. PICK b \in RawBody, r \in Response :
           b = body[x] /\ r = resp[x] /\ r = resp'[x] /\ Sound(r, b)
    BY <1>1, <1>2
  <2>2. body'[x] = IF b.at = "none" THEN b ELSE [b EXCEPT !.edited = TRUE]
    BY <2>1 DEF Edit
  <2>3. PICK c \in RawBody : c = body'[x]
    BY <2>1, <2>2 DEF RawBody
  <2>4. /\ c.at = b.at /\ c.position = b.position /\ c.sent = b.sent
        /\ c.remaining = b.remaining /\ (b.at # "none" => c.edited = TRUE)
    BY <2>1, <2>2, <2>3 DEF RawBody
  <2>5. ServedAs(resp[x])'
    BY <1>2, <2>1 DEF Sound, ServedAs
  <2>6. OnTrack(body[x], resp[x])'
    BY <2>1, <2>3, <2>4 DEF Sound, OnTrack
  <2> QED
    BY <2>1, <2>3, <2>4, <2>5, <2>6 DEF Sound
<1>5. body' \in [Streams -> RawBody]
  BY <1>4 DEF Edit
<1> QED
  BY <1>1, <1>2, <1>3, <1>4, <1>5, IInvPartsNext DEF TranscoderTypeOK

\* Nothing has been asked for at first.
LEMMA InitIInv == Init => IInv
<1> SUFFICES ASSUME Init PROVE IInv
  OBVIOUS
<1>1. Cardinality(answer) <= 1
  BY FS_EmptySet DEF Init
<1>2. Inputs /\ Announcements
  BY <1>1 DEF Init, Inputs, Announcements
<1>3. TranscoderTypeOK /\ \A s \in Streams : Owned(ts[s])
  BY ClosedOwned DEF Init, TranscoderInit, TranscoderTypeOK
<1>4. NoResp \in Response /\ NoBody \in RawBody
  BY NothingSound DEF Sound
<1>5. resp \in [Streams -> Response] /\ body \in [Streams -> RawBody]
  BY <1>4 DEF Init
<1>6. \A s \in Streams : Sound(resp[s], body[s])
  BY NothingSound DEF Init
<1> QED
  BY <1>2, <1>3, <1>5, <1>6, IInvParts

\* No step leaves the invariant.
LEMMA NextIInv == IInv /\ [Next]_vars => IInv'
<1> SUFFICES ASSUME IInv, [Next]_vars PROVE IInv'
  OBVIOUS
<1>1. CASE GetTranscodeDecision
  BY <1>1, DecisionKeepsIInv
<1>2. ASSUME NEW size \in Sizes, Edit(size) PROVE IInv'
  BY <1>2, EditKeepsIInv
<1>3. ASSUME NEW row \in Sources, Rescan(row) PROVE IInv'
  BY <1>3, RescanKeepsIInv
<1>4. ASSUME NEW s \in Streams, Stream(s) \/ StreamAsDecided(s) \/ Download(s) PROVE IInv'
  BY <1>4, StreamKeepsIInv
<1>5. ASSUME NEW s \in Streams, OpenBody(s) \/ RunBody(s) \/ Unasked(s) PROVE IInv'
  BY <1>5, RunKeepsIInv
<1>6. ASSUME NEW s \in Streams, OpenFile(s) \/ ReadChunk(s) \/ CloseFile(s) PROVE IInv'
  BY <1>6, BodyKeepsIInv
<1>7. CASE UNCHANGED vars
  <2>1. UNCHANGED <<policy, source, file, client, answer, resp, body, ts>>
    BY <1>7 DEF vars, requestVars
  <2> QED
    BY <2>1 DEF IInv, TypeOK, TranscoderTypeOK, ServedAs, OnTrack
<1> QED
  BY <1>1, <1>2, <1>3, <1>4, <1>5, <1>6, <1>7 DEF Next, Answers, Bodies

\* In every behaviour every stream is what was announced for it.
THEOREM InductiveInvariant == Spec => []IInv
BY InitIInv, NextIInv, PTL DEF Spec

-----------------------------------------------------------------------------
(* What follows.                                                           *)

\* Headers, bodies, processes and settings have the types of the module.
THEOREM TypeCorrect == Spec => []TypeOK
<1>1. IInv => TypeOK
  BY DEF IInv
<1> QED
  BY <1>1, InductiveInvariant, PTL

\* Every ffmpeg process has somebody who ends it or gave up on it, and no more
\* than one reaper, whatever the interleaving of hang-ups, exits and timeouts.
THEOREM ProcessesStayOwned == Spec => []ProcessesAreOwned
<1>1. IInv => ProcessesAreOwned
  BY DEF IInv, Owned, ProcessesAreOwned, Running
<1> QED
  BY <1>1, InductiveInvariant, PTL

\* A 206 announces a part of the resource, for any wanted and size.
THEOREM PartialsStayParts == Spec => []PartialsAreParts
<1>1. IInv => PartialsAreParts
  BY DEF IInv, IsPart, PartialsAreParts
<1> QED
  BY <1>1, InductiveInvariant, PTL

\* A raw body is as long as its headers say unless its file was edited, and
\* never longer.
THEOREM BodiesKeepTheirPromise == Spec => []BodiesMatchHeaders
<1>1. ASSUME IInv, NEW s \in Streams, BodyDone(s)
      PROVE  /\ body[s].sent <= resp[s].length
             /\ ~body[s].edited =>
                   /\ body[s].sent = resp[s].length
                   /\ resp[s].status = 206 => body[s].position = resp[s].last + 1
  <2>1. Inputs /\ Sound(resp[s], body[s])
    BY <1>1, IInvParts
  <2>2. PICK r \in Response, b \in RawBody :
           r = resp[s] /\ b = body[s] /\ OnTrack(b, r) /\ b.at # "none"
    BY <1>1, <2>1 DEF Sound, BodyDone
  <2>3. /\ b.position \in Nat /\ b.remaining \in Nat /\ b.sent \in Nat
        /\ r.first \in Nat /\ r.length \in Nat /\ r.last \in Int /\ file \in Nat
    BY <2>1, <2>2, InputTypes DEF Response, RawBody
  <2>4. b.remaining = 0 \/ file <= b.position
    BY <1>1, <2>2, <2>3 DEF BodyDone, Available
  <2>5. b.sent <= r.length
    BY <2>2, <2>3 DEF OnTrack
  <2>6. ~b.edited => b.sent = r.length
    BY <2>2, <2>3, <2>4 DEF OnTrack
  <2>7. ~b.edited /\ r.status = 206 => b.position = r.last + 1
    BY <2>2, <2>3, <2>6 DEF OnTrack
  <2> QED
    BY <2>2, <2>5, <2>6, <2>7
<1>2. IInv => BodiesMatchHeaders
  BY <1>1 DEF BodiesMatchHeaders, IInv
<1> QED
  BY <1>2, InductiveInvariant, PTL

\* Who streams with the parameters of a decision is served for what was
\* announced.
LEMMA StreamsAsDecided ==
  ASSUME IInv, NEW a \in answer, NEW s \in Streams, NEW p \in a.decision.params,
         NEW t \in a.decision.stream, resp[s].kind # "none", resp[s].asked = p,
         resp[s].row = a.source
  PROVE  /\ policy \in Policy /\ policy.enabled /\ a.source \in TrackRow
         /\ client.maxTranscoding \in Nat
         /\ t.codec \in SUPPORTED_TRANSCODE_CODECS /\ t.kbps \in 1..MAX_TRANSCODE_BITRATE
         /\ client.maxTranscoding # 0 => t.kbps = 1 \/ 1000 * t.kbps <= client.maxTranscoding
         /\ a.source.kbps # 0 => t.kbps <= a.source.kbps
         /\ p.format = t.codec /\ p.maxBitRate = t.kbps
         /\ resp[s].kind \in {"raw", "transcoded"}
         /\ resp[s].kind = "raw" <=> Served(policy, a.source, t.codec, t.kbps).raw
         /\ resp[s].kind = "transcoded" =>
               /\ resp[s].format = Served(policy, a.source, t.codec, t.kbps).format
               /\ resp[s].bitrate = Served(policy, a.source, t.codec, t.kbps).bitrate
<1>1. /\ Inputs /\ a.source \in Sources /\ a.decision = decide(client, a.source, policy)
      /\ Sound(resp[s], body[s])
  BY IInvParts DEF Announcements
<1>2. /\ t.codec \in SUPPORTED_TRANSCODE_CODECS /\ t.kbps \in 1..MAX_TRANSCODE_BITRATE
      /\ client.maxTranscoding # 0 => t.kbps = 1 \/ 1000 * t.kbps <= client.maxTranscoding
      /\ a.source.kbps # 0 => t.kbps <= a.source.kbps
      /\ policy.enabled
      /\ a.decision.params = {[format |-> t.codec, maxBitRate |-> t.kbps]}
  BY <1>1, InputTypes, WhatIsAnnounced
<1>3. p.format = t.codec /\ p.maxBitRate = t.kbps
  BY <1>2
<1>4. PICK r \in Response : r = resp[s] /\ ServedAs(r)
  BY <1>1 DEF Sound
<1>5. PICK served : served = Served(policy, a.source, t.codec, t.kbps)
  OBVIOUS
<1>6. r.kind \in {"raw", "transcoded"}
  BY <1>4 DEF Response
<1>7. /\ r.kind = "raw" <=> served.raw
      /\ r.kind = "transcoded" => r.format = served.format /\ r.bitrate = served.bitrate
  BY <1>3, <1>4, <1>5, <1>6 DEF ServedAs
<1> QED
  BY <1>1, <1>2, <1>3, <1>4, <1>5, <1>6, <1>7, InputTypes

\* Who streams with the parameters of a decision gets the codec announced at the
\* rung beside the bit rate announced, or the server's ceiling if that is lower,
\* or the file when it is just that, for any settings, client and track.
THEOREM DecisionsAreHonoured == Spec => []DecisionIsHonoured
<1>1. ASSUME IInv, NEW a \in answer, NEW s \in Streams, NEW p \in a.decision.params,
             NEW t \in a.decision.stream, resp[s].kind # "none", resp[s].asked = p,
             resp[s].row = a.source
      PROVE  IF resp[s].kind = "raw"
             THEN codec_for_suffix(a.source.suffix) = t.codec /\ a.source.kbps = t.kbps
             ELSE /\ resp[s].format = t.codec
                  /\ AtMostARungAbove(Capped(t.kbps, policy.cap), resp[s].bitrate)
                  /\ AtMostARungBelow(Capped(t.kbps, policy.cap), resp[s].bitrate)
  <2>1. /\ policy \in Policy /\ policy.enabled /\ a.source \in TrackRow
        /\ t.codec \in SUPPORTED_TRANSCODE_CODECS /\ t.kbps \in 1..MAX_TRANSCODE_BITRATE
        /\ a.source.kbps # 0 => t.kbps <= a.source.kbps
    BY <1>1, StreamsAsDecided
  <2>2. /\ resp[s].kind \in {"raw", "transcoded"}
        /\ resp[s].kind = "raw" <=> Served(policy, a.source, t.codec, t.kbps).raw
        /\ resp[s].kind = "transcoded" =>
              /\ resp[s].format = Served(policy, a.source, t.codec, t.kbps).format
              /\ resp[s].bitrate = Served(policy, a.source, t.codec, t.kbps).bitrate
    BY <1>1, StreamsAsDecided
  <2>3. PICK n \in Nat : n = t.kbps /\ n > 0 /\ n <= MAX_TRANSCODE_BITRATE
    BY <2>1 DEF MAX_TRANSCODE_BITRATE
  <2>4. PICK served : served = Served(policy, a.source, t.codec, n)
    OBVIOUS
  <2>5. IF served.raw
        THEN codec_for_suffix(a.source.suffix) = t.codec /\ a.source.kbps # 0
             /\ a.source.kbps <= n
        ELSE served.format = t.codec
    BY <2>1, <2>4, Honoured
  <2>6. CASE resp[s].kind = "raw"
    <3>1. a.source.kbps \in Nat
      BY <2>1 DEF TrackRow
    <3> QED
      BY <2>1, <2>2, <2>3, <2>4, <2>5, <2>6, <3>1
  <2>7. CASE resp[s].kind = "transcoded"
    <3>1. served.raw = FALSE \/ ~served.raw
      BY <2>2, <2>3, <2>4, <2>7
    <3>2. /\ AtMostARungAbove(Capped(n, policy.cap), served.bitrate)
          /\ AtMostARungBelow(Capped(n, policy.cap), served.bitrate)
      BY <2>1, <2>3, <2>4, <3>1, ServedAt
    <3> QED
      BY <2>2, <2>3, <2>4, <2>5, <2>7, <3>1, <3>2
  <2> QED
    BY <2>2, <2>6, <2>7
<1>2. IInv => DecisionIsHonoured
  BY <1>1 DEF DecisionIsHonoured
<1> QED
  BY <1>2, InductiveInvariant, PTL

\* No transcoded stream exceeds the server's ceiling, the bit rate asked for, or
\* what the client or the source bounded a decision by, but by rounding to the
\* next rung; requests for a bit rate of 0 excepted.
THEOREM CeilingsHold == Spec => []ServedWithinCeilings
<1>1. ASSUME IInv, NEW s \in Streams, resp[s].kind = "transcoded",
             resp[s].asked.maxBitRate # 0
      PROVE  /\ resp[s].bitrate <= MAX_TRANSCODE_BITRATE
             /\ policy.cap # 0 => AtMostARungAbove(policy.cap, resp[s].bitrate)
             /\ AtMostARungAbove(IF resp[s].asked.maxBitRate = -1 THEN policy.bitrate
                                 ELSE resp[s].asked.maxBitRate, resp[s].bitrate)
  <2>1. Inputs /\ Sound(resp[s], body[s])
    BY <1>1, IInvParts
  <2>2. PICK r \in Response : r = resp[s] /\ ServedAs(r)
    BY <2>1 DEF Sound
  <2>3. PICK n \in Int : n = r.asked.maxBitRate /\ n # 0
    <3>1. r.asked \in Request
      BY DEF Response
    <3> QED
      BY <1>1, <2>2, <3>1 DEF Request
  <2>4. r.row \in TrackRow /\ policy \in Policy
    BY <1>1, <2>1, <2>2, InputTypes DEF ServedAs
  <2>5. ~Served(policy, r.row, r.asked.format, n).raw
        /\ r.bitrate = Served(policy, r.row, r.asked.format, n).bitrate
    BY <1>1, <2>2, <2>3 DEF ServedAs
  <2>6. r.bitrate \in BITRATES
    BY <2>3, <2>4, <2>5, ServedType
  <2>7. r.bitrate <= MAX_TRANSCODE_BITRATE
    BY <2>6 DEF BITRATES, MAX_TRANSCODE_BITRATE
  <2>8. /\ policy.cap # 0 => AtMostARungAbove(policy.cap, r.bitrate)
        /\ AtMostARungAbove(IF n = -1 THEN policy.bitrate ELSE n, r.bitrate)
    BY <2>3, <2>4, <2>5, ServedAt
  <2> QED
    BY <2>2, <2>3, <2>7, <2>8
<1>2. ASSUME IInv, NEW s \in Streams, resp[s].kind = "transcoded",
             NEW a \in answer, NEW p \in a.decision.params,
             resp[s].asked = p, resp[s].row = a.source
      PROVE  /\ client.maxTranscoding # 0 =>
                   AtMostARungAbove(client.maxTranscoding \div 1000, resp[s].bitrate)
             /\ a.source.kbps # 0 => AtMostARungAbove(a.source.kbps, resp[s].bitrate)
  <2>1. PICK t : t \in a.decision.stream
    BY <1>2, AnnouncedWithParams
  <2>2. /\ client.maxTranscoding \in Nat /\ t.kbps \in 1..MAX_TRANSCODE_BITRATE
        /\ client.maxTranscoding # 0 => t.kbps = 1 \/ 1000 * t.kbps <= client.maxTranscoding
        /\ a.source.kbps # 0 => t.kbps <= a.source.kbps
        /\ a.source \in TrackRow /\ p.maxBitRate = t.kbps
    BY <1>2, <2>1, StreamsAsDecided
  <2>3. PICK n \in Nat : n = t.kbps /\ n > 0
    BY <2>2 DEF MAX_TRANSCODE_BITRATE
  <2>4. \A b \in BITRATES : b < resp[s].bitrate => b < n
    <3>1. resp[s].asked.maxBitRate = n /\ n # 0 /\ n # -1
      BY <1>2, <2>2, <2>3
    <3> QED
      BY <1>1, <1>2, <3>1 DEF AtMostARungAbove
  <2>5. a.source.kbps \in Nat /\ BITRATES \subseteq Nat /\ \A b \in BITRATES : b >= 128
    BY <2>2 DEF TrackRow, BITRATES
  <2>6. a.source.kbps # 0 => AtMostARungAbove(a.source.kbps, resp[s].bitrate)
    BY <2>2, <2>3, <2>4, <2>5 DEF AtMostARungAbove
  <2>7. ASSUME client.maxTranscoding # 0
        PROVE  AtMostARungAbove(client.maxTranscoding \div 1000, resp[s].bitrate)
    <3>1. PICK m \in Nat : m = client.maxTranscoding
      BY <2>2
    <3>2. n = 1 \/ n <= m \div 1000
      BY <2>2, <2>3, <2>7, <3>1
    <3>3. PICK rate \in Nat : rate = m \div 1000
      BY <3>1
    <3>4. CASE n = 1
      <4>1. \A b \in BITRATES : ~ (b < resp[s].bitrate)
        BY <2>4, <2>5, <3>4
      <4> QED
        BY <4>1 DEF AtMostARungAbove
    <3>5. CASE n <= rate
      <4>1. \A b \in BITRATES : b < resp[s].bitrate => b < rate
        BY <2>3, <2>4, <2>5, <3>5
      <4> QED
        BY <3>1, <3>3, <4>1 DEF AtMostARungAbove
    <3> QED
      BY <3>2, <3>3, <3>4, <3>5
  <2> QED
    BY <2>6, <2>7
<1>3. IInv => ServedWithinCeilings
  BY <1>1, <1>2 DEF ServedWithinCeilings
<1> QED
  BY <1>3, InductiveInvariant, PTL

-----------------------------------------------------------------------------
(* The player: for any library, lists, bounds and answers of the radio.    *)

\* The element of a sequence the filter has come to, and what it has kept then.
KeepStep(q, S, f, n) ==
    IF n = 0 THEN << >> ELSE IF q[n] \in S THEN Append(f[n - 1], q[n]) ELSE f[n - 1]
Keeps(q, S, f, m) == f = [n \in 0..m |-> KeepStep(q, S, f, n)]

\* Induction, for a set of natural numbers.
LEMMA CountUp ==
    ASSUME NEW P \in SUBSET Nat, 0 \in P, \A n \in P : n + 1 \in P
    PROVE  \A n \in Nat : n \in P
<1> SUFFICES ASSUME Nat \ P # {} PROVE FALSE
  OBVIOUS
<1> PICK m \in Nat \ P : \A k \in Nat \ P : m <= k
  BY LeastIn
<1>1. m - 1 \in Nat /\ m - 1 \notin Nat \ P
  OBVIOUS
<1> QED
  BY <1>1

\* The recursion of the filter defines a function.
LEMMA KeepsExists ==
    ASSUME NEW q, NEW S, NEW m \in Nat PROVE \E f : Keeps(q, S, f, m)
<1> DEFINE P == {n \in Nat : \E f : Keeps(q, S, f, n)}
<1>1. 0 \in P
  <2> DEFINE f == [n \in 0..0 |-> << >>]
  <2>1. Keeps(q, S, f, 0)
    BY DEF Keeps, KeepStep
  <2> QED
    BY <2>1
<1>2. ASSUME NEW n \in P PROVE n + 1 \in P
  <2> PICK f : Keeps(q, S, f, n)
    OBVIOUS
  <2> DEFINE g == [k \in 0..n + 1 |-> IF k = n + 1 THEN KeepStep(q, S, f, n + 1) ELSE f[k]]
  <2>1. \A k \in 0..n : g[k] = f[k]
    OBVIOUS
  <2>2. \A k \in 0..n + 1 : KeepStep(q, S, g, k) = KeepStep(q, S, f, k)
    <3> HIDE DEF g
    <3> QED
      BY <2>1 DEF KeepStep
  <2>3. \A k \in 0..n : f[k] = KeepStep(q, S, f, k)
    BY DEF Keeps
  <2>4. g = [k \in 0..n + 1 |-> KeepStep(q, S, g, k)]
    <3>1. g = [k \in 0..n + 1 |-> KeepStep(q, S, f, k)]
      BY <2>3
    <3> HIDE DEF g
    <3> QED
      BY <2>2, <3>1
  <2> HIDE DEF g
  <2> QED
    BY <2>4 DEF Keeps
<1> HIDE DEF P
<1>3. m \in P
  BY <1>1, <1>2, CountUp DEF P
<1> QED
  BY <1>3 DEF P

\* What the filter keeps is what its recursion has kept at the end.
LEMMA KeptIs ==
    ASSUME NEW T, NEW q \in Seq(T), NEW S
    PROVE  \E f : Keeps(q, S, f, Len(q)) /\ Kept(q, S) = f[Len(q)]
<1> DEFINE f == CHOOSE f : f = [n \in 0..Len(q) |->
                  IF n = 0 THEN << >>
                  ELSE IF q[n] \in S THEN Append(f[n - 1], q[n]) ELSE f[n - 1]]
<1>1. Keeps(q, S, f, Len(q))
  <2> PICK g : Keeps(q, S, g, Len(q))
    BY KeepsExists, LenProperties
  <2>1. g = [n \in 0..Len(q) |->
                  IF n = 0 THEN << >>
                  ELSE IF q[n] \in S THEN Append(g[n - 1], q[n]) ELSE g[n - 1]]
    BY Zenon DEF Keeps, KeepStep
  <2>2. f = [n \in 0..Len(q) |->
                  IF n = 0 THEN << >>
                  ELSE IF q[n] \in S THEN Append(f[n - 1], q[n]) ELSE f[n - 1]]
    BY <2>1, Zenon
  <2> QED
    BY <2>2, Zenon DEF Keeps, KeepStep
<1>2. Kept(q, S) = f[Len(q)]
  BY Zenon DEF Kept
<1> QED
  BY <1>1, <1>2, Zenon

\* Up to each element the filter has kept elements of S, and no more than it saw.
LEMMA KeepsFacts ==
    ASSUME NEW T, NEW q \in Seq(T), NEW S, NEW f, Keeps(q, S, f, Len(q))
    PROVE  \A n \in 0..Len(q) : f[n] \in Seq(T \cap S) /\ Len(f[n]) <= n
<1> DEFINE P == {n \in Nat : n <= Len(q) => f[n] \in Seq(T \cap S) /\ Len(f[n]) <= n}
<1>1. Len(q) \in Nat /\ \A n \in 1..Len(q) : q[n] \in T
  BY LenProperties
<1>2. \A n \in 0..Len(q) : f[n] = KeepStep(q, S, f, n)
  BY DEF Keeps
<1>3. 0 \in P
  <2>1. f[0] = << >>
    BY <1>1, <1>2 DEF KeepStep
  <2>2. f[0] \in Seq(T \cap S) /\ Len(f[0]) = 0
    BY <2>1, EmptySeq
  <2> QED
    BY <2>2
<1>4. ASSUME NEW n \in P PROVE n + 1 \in P
  <2> SUFFICES ASSUME n + 1 <= Len(q)
               PROVE  f[n + 1] \in Seq(T \cap S) /\ Len(f[n + 1]) <= n + 1
    OBVIOUS
  <2>1. f[n] \in Seq(T \cap S) /\ Len(f[n]) <= n /\ Len(f[n]) \in Nat
    BY <1>1, LenProperties
  <2>2. f[n + 1] = IF q[n + 1] \in S THEN Append(f[n], q[n + 1]) ELSE f[n]
    <3>1. n + 1 # 0 /\ (n + 1) - 1 = n /\ n + 1 \in 0..Len(q)
      BY <1>1
    <3>2. f[n + 1] = KeepStep(q, S, f, n + 1)
      BY <1>2, <3>1
    <3> QED
      BY <3>1, <3>2 DEF KeepStep
  <2>3. q[n + 1] \in S =>
           /\ Append(f[n], q[n + 1]) \in Seq(T \cap S)
           /\ Len(Append(f[n], q[n + 1])) = Len(f[n]) + 1
    BY <1>1, <2>1, AppendProperties
  <2> QED
    BY <2>1, <2>2, <2>3
<1> HIDE DEF P
<1>5. \A n \in Nat : n \in P
  <2>1. P \in SUBSET Nat
    BY DEF P
  <2> QED
    BY <1>3, <1>4, <2>1, CountUp
<1> QED
  BY <1>1, <1>5 DEF P

\* The filter keeps elements of S, and no more than there were.
LEMMA KeptType ==
    ASSUME NEW T, NEW q \in Seq(T), NEW S
    PROVE  Kept(q, S) \in Seq(T \cap S) /\ Len(Kept(q, S)) <= Len(q)
<1> PICK f : Keeps(q, S, f, Len(q)) /\ Kept(q, S) = f[Len(q)]
  BY KeptIs
<1>1. Len(q) \in 0..Len(q)
  BY LenProperties
<1>2. \A n \in 0..Len(q) : f[n] \in Seq(T \cap S) /\ Len(f[n]) <= n
  BY KeepsFacts
<1> QED
  BY <1>1, <1>2

\* It keeps everything if everything is in S.
LEMMA KeptAll ==
    ASSUME NEW T, NEW q \in Seq(T), NEW S, \A i \in 1..Len(q) : q[i] \in S
    PROVE  Kept(q, S) = q
<1> PICK f : Keeps(q, S, f, Len(q)) /\ Kept(q, S) = f[Len(q)]
  BY KeptIs
<1> DEFINE Same(n) == f[n] \in Seq(T) /\ Len(f[n]) = n /\ \A i \in 1..n : f[n][i] = q[i]
           P == {n \in Nat : n <= Len(q) => Same(n)}
<1>1. Len(q) \in Nat /\ \A n \in 1..Len(q) : q[n] \in T
  BY LenProperties
<1>2. \A n \in 0..Len(q) : f[n] = KeepStep(q, S, f, n)
  BY DEF Keeps
<1>3. 0 \in P
  <2>1. f[0] = << >>
    BY <1>1, <1>2 DEF KeepStep
  <2>2. Same(0)
    BY <2>1, EmptySeq
  <2> QED
    BY <2>2
<1>4. ASSUME NEW n \in P PROVE n + 1 \in P
  <2> SUFFICES ASSUME n + 1 <= Len(q) PROVE Same(n + 1)
    OBVIOUS
  <2>1. Same(n)
    BY <1>1
  <2>2. f[n + 1] = Append(f[n], q[n + 1])
    <3>1. n + 1 # 0 /\ (n + 1) - 1 = n /\ n + 1 \in 0..Len(q) /\ q[n + 1] \in S
      BY <1>1
    <3>2. f[n + 1] = KeepStep(q, S, f, n + 1)
      BY <1>2, <3>1
    <3> QED
      BY <3>1, <3>2 DEF KeepStep
  <2>3. /\ Append(f[n], q[n + 1]) \in Seq(T)
        /\ Len(Append(f[n], q[n + 1])) = n + 1
        /\ \A i \in 1..n : Append(f[n], q[n + 1])[i] = f[n][i]
        /\ Append(f[n], q[n + 1])[n + 1] = q[n + 1]
    BY <1>1, <2>1, AppendProperties
  <2> QED
    BY <2>1, <2>2, <2>3
<1> HIDE DEF P
<1>5. \A n \in Nat : n \in P
  <2>1. P \in SUBSET Nat
    BY DEF P
  <2> QED
    BY <1>3, <1>4, <2>1, CountUp
<1>6. Same(Len(q))
  BY <1>1, <1>5 DEF P
<1> QED
  BY <1>1, <1>6, SeqEqual

\* One element more is kept if it is in S.
LEMMA KeptAppend ==
    ASSUME NEW T, NEW q \in Seq(T), NEW e \in T, NEW S
    PROVE  Kept(Append(q, e), S) =
              IF e \in S THEN Append(Kept(q, S), e) ELSE Kept(q, S)
<1> PICK f : Keeps(q, S, f, Len(q)) /\ Kept(q, S) = f[Len(q)]
  BY KeptIs
<1> DEFINE r == Append(q, e)
<1>1. /\ r \in Seq(T) /\ Len(r) = Len(q) + 1 /\ Len(q) \in Nat
      /\ \A i \in 1..Len(q) : r[i] = q[i]
      /\ r[Len(q) + 1] = e
  BY AppendProperties, LenProperties
<1> HIDE DEF r
<1> PICK g : Keeps(r, S, g, Len(r)) /\ Kept(r, S) = g[Len(r)]
  BY <1>1, KeptIs
<1>2. /\ \A n \in 0..Len(q) : f[n] = KeepStep(q, S, f, n)
      /\ \A n \in 0..Len(r) : g[n] = KeepStep(r, S, g, n)
  BY DEF Keeps
<1> DEFINE P == {n \in Nat : n <= Len(q) => f[n] = g[n]}
<1>3. 0 \in P
  <2>1. f[0] = << >> /\ g[0] = << >>
    BY <1>1, <1>2 DEF KeepStep
  <2> QED
    BY <2>1
<1>4. ASSUME NEW n \in P PROVE n + 1 \in P
  <2> SUFFICES ASSUME n + 1 <= Len(q) PROVE f[n + 1] = g[n + 1]
    OBVIOUS
  <2>1. /\ n + 1 # 0 /\ (n + 1) - 1 = n /\ n + 1 \in 0..Len(q) /\ n + 1 \in 0..Len(r)
        /\ n + 1 \in 1..Len(q)
    BY <1>1
  <2>2. f[n] = g[n] /\ r[n + 1] = q[n + 1]
    BY <1>1, <2>1
  <2>3. f[n + 1] = KeepStep(q, S, f, n + 1) /\ g[n + 1] = KeepStep(r, S, g, n + 1)
    BY <1>2, <2>1
  <2> QED
    BY <2>1, <2>2, <2>3 DEF KeepStep
<1> HIDE DEF P
<1>5. \A n \in Nat : n \in P
  <2>1. P \in SUBSET Nat
    BY DEF P
  <2> QED
    BY <1>3, <1>4, <2>1, CountUp
<1>6. f[Len(q)] = g[Len(q)]
  BY <1>1, <1>5 DEF P
<1>7. g[Len(r)] = IF e \in S THEN Append(g[Len(q)], e) ELSE g[Len(q)]
  <2>1. Len(r) \in 0..Len(r) /\ Len(r) # 0 /\ Len(r) - 1 = Len(q) /\ r[Len(r)] = e
    BY <1>1
  <2>2. g[Len(r)] = KeepStep(r, S, g, Len(r))
    BY <1>2, <2>1
  <2> QED
    BY <2>1, <2>2 DEF KeepStep
<1> QED
  BY <1>6, <1>7 DEF r

\* Filtering twice keeps what is in both sets.
LEMMA KeptTwice ==
    ASSUME NEW T, NEW q \in Seq(T), NEW S, NEW U
    PROVE  Kept(Kept(q, S), U) = Kept(q, S \cap U)
<1> PICK f : Keeps(q, S, f, Len(q)) /\ Kept(q, S) = f[Len(q)]
  BY KeptIs
<1> PICK g : Keeps(q, S \cap U, g, Len(q)) /\ Kept(q, S \cap U) = g[Len(q)]
  BY KeptIs
<1>1. Len(q) \in Nat /\ \A n \in 1..Len(q) : q[n] \in T
  BY LenProperties
<1>2. /\ \A n \in 0..Len(q) : f[n] = KeepStep(q, S, f, n)
      /\ \A n \in 0..Len(q) : g[n] = KeepStep(q, S \cap U, g, n)
  BY DEF Keeps
<1>3. \A n \in 0..Len(q) : f[n] \in Seq(T)
  <2>1. \A n \in 0..Len(q) : f[n] \in Seq(T \cap S)
    BY KeepsFacts
  <2> QED
    BY <2>1, SeqMonotonic
<1> DEFINE P == {n \in Nat : n <= Len(q) => Kept(f[n], U) = g[n]}
<1>4. 0 \in P
  <2>1. f[0] = << >> /\ g[0] = << >>
    BY <1>1, <1>2 DEF KeepStep
  <2>2. Kept(<< >>, U) = << >>
    <3>1. << >> \in Seq(T) /\ \A i \in 1..Len(<< >>) : << >>[i] \in U
      BY EmptySeq
    <3> QED
      BY <3>1, KeptAll
  <2> QED
    BY <2>1, <2>2
<1>5. ASSUME NEW n \in P PROVE n + 1 \in P
  <2> SUFFICES ASSUME n + 1 <= Len(q) PROVE Kept(f[n + 1], U) = g[n + 1]
    OBVIOUS
  <2> DEFINE e == q[n + 1]
  <2>1. /\ n + 1 # 0 /\ (n + 1) - 1 = n /\ n + 1 \in 0..Len(q) /\ n \in 0..Len(q)
        /\ e \in T
    BY <1>1
  <2>2. Kept(f[n], U) = g[n] /\ f[n] \in Seq(T)
    BY <1>1, <1>3, <2>1
  <2>3. /\ f[n + 1] = KeepStep(q, S, f, n + 1)
        /\ g[n + 1] = KeepStep(q, S \cap U, g, n + 1)
    BY <1>2, <2>1
  <2>4. /\ f[n + 1] = IF e \in S THEN Append(f[n], e) ELSE f[n]
        /\ g[n + 1] = IF e \in S \cap U THEN Append(g[n], e) ELSE g[n]
    BY <2>1, <2>3 DEF KeepStep
  <2> HIDE DEF e
  <2>5. Kept(Append(f[n], e), U) =
           IF e \in U THEN Append(Kept(f[n], U), e) ELSE Kept(f[n], U)
    BY <2>1, <2>2, KeptAppend, ZenonT(40)
  <2> QED
    BY <2>2, <2>4, <2>5
<1> HIDE DEF P
<1>6. \A n \in Nat : n \in P
  <2>1. P \in SUBSET Nat
    BY DEF P
  <2> QED
    BY <1>4, <1>5, <2>1, CountUp
<1> QED
  BY <1>1, <1>6 DEF P

-----------------------------------------------------------------------------
(* The inductive invariant of the player.                                  *)

Queues == {q \in Seq(Tracks) : Len(q) <= MaxQueue}
Rows == [saved : BOOLEAN, current : Tracks \cup {NoTrack}, index : Nat, partway : BOOLEAN]
Answered == [ids : Queues, current : Tracks \cup {NoTrack}, index : Nat, partway : BOOLEAN]
Requested == {v \in [ids : Queues, index : Nat \ {0}, partway : BOOLEAN] :
                 v.index \in DOMAIN v.ids}

\* The server keeps what is left of one save.
ServerInv ==
    /\ tracks \subseteq Tracks /\ whole \in Answered
    /\ header \in Rows /\ StoredQueueIsOneSave

\* The element has the track that is shown, and plays nothing if none is.
ElementInv ==
    /\ queue \in Queues /\ index \in 0..Len(queue)
    /\ src \in Tracks \cup {NoTrack}
    /\ index # 0 => src = queue[index]
    /\ playing \in BOOLEAN /\ (playing => index # 0)
    /\ partway \in BOOLEAN /\ pending \in BOOLEAN

\* Handlers wait for a refill only while there is one.
RefillInv ==
    /\ refill = NoRefill \/ refill \subseteq Tracks
    /\ ended \in Nat /\ (ended > 0 => refill # NoRefill)

\* What is on its way is a queue as a whole.
WireInv ==
    /\ restore \in [step : {"header", "entries", "answer", "done"}, row : Rows, list : Queues]
    /\ saves \in Seq(Requested)

TabInv == ServerInv /\ ElementInv /\ RefillInv /\ WireInv

\* Queues are sequences of tracks.
LEMMA QueueFacts ==
    ASSUME NEW q \in Queues
    PROVE  /\ q \in Seq(Tracks) /\ Len(q) \in Nat /\ Len(q) <= MaxQueue
           /\ DOMAIN q = 1..Len(q) /\ \A i \in DOMAIN q : q[i] \in Tracks
           /\ Range(q) \subseteq Tracks
           /\ q # << >> => Len(q) > 0
<1>1. /\ q \in Seq(Tracks) /\ Len(q) \in Nat /\ Len(q) <= MaxQueue
      /\ DOMAIN q = 1..Len(q) /\ \A i \in DOMAIN q : q[i] \in Tracks
  BY LenProperties DEF Queues
<1>2. q # << >> => Len(q) > 0
  BY <1>1, EmptySeq
<1> QED
  BY <1>1, <1>2 DEF Range

\* The stored entries are tracks, no more of them than were saved.
LEMMA EntriesFacts == ASSUME ServerInv PROVE entries \in Queues
<1>1. whole.ids \in Seq(Tracks) /\ Len(whole.ids) \in Nat /\ Len(whole.ids) <= MaxQueue
  BY QueueFacts DEF ServerInv, Answered
<1>2. entries \in Seq(Tracks \cap tracks) /\ Len(entries) <= Len(whole.ids)
  BY <1>1, KeptType DEF ServerInv, StoredQueueIsOneSave
<1>3. entries \in Seq(Tracks) /\ Len(entries) \in Nat
  BY <1>2, SeqMonotonic, LenProperties
<1>4. MaxQueue \in Nat
  BY PlayerAssumption
<1> QED
  BY <1>1, <1>2, <1>3, <1>4 DEF Queues

\* A snapshot of a queue that is not empty is a request.
LEMMA SnapshotFacts ==
    ASSUME NEW q \in Queues, q # << >>, NEW i, NEW p \in BOOLEAN
    PROVE  Snapshot(q, i, p) \in Requested
<1>1. 1 \in DOMAIN q /\ DOMAIN q \subseteq Nat \ {0}
  BY QueueFacts
<1>2. Snapshot(q, i, p) =
        [ids |-> q, index |-> IF i \in DOMAIN q THEN i ELSE 1, partway |-> p]
  BY DEF Snapshot
<1> QED
  BY <1>1, <1>2 DEF Requested

\* save() adds a request or none.
LEMMA WithSaveFacts ==
    ASSUME NEW list \in Seq(Requested), NEW q \in Queues, NEW i, NEW p \in BOOLEAN
    PROVE  WithSave(list, q, i, p) \in Seq(Requested)
<1>1. CASE Restoring \/ q = << >>
  BY <1>1 DEF WithSave
<1>2. CASE ~(Restoring \/ q = << >>)
  <2>1. Append(list, Snapshot(q, i, p)) \in Seq(Requested)
    BY <1>2, SnapshotFacts, AppendProperties
  <2> QED
    BY <1>2, <2>1 DEF WithSave
<1> QED
  BY <1>1, <1>2

\* A refill that is asked for excludes tracks; one in flight is kept.
LEMMA MaybeRefillFacts ==
    ASSUME RefillInv, NEW q \in Queues, NEW i, maybeRefill(q, i)
    PROVE  /\ refill' = NoRefill \/ refill' \subseteq Tracks
           /\ refill # NoRefill => refill' # NoRefill
           /\ autoplay /\ i > 0 /\ Remaining(q, i) <= REFILL_WHEN_REMAINING =>
                 refill' # NoRefill
<1>1. Range(q) \subseteq Tracks /\ Range(q) # NoRefill
  BY PlayerAssumption, QueueFacts DEF NoRefill, NoTrack
<1> QED
  BY <1>1 DEF maybeRefill, RefillInv

\* Pointing the element at a track of a queue shows what plays.
LEMMA PlayAtFacts ==
    ASSUME TabInv, NEW q \in Queues, NEW i \in DOMAIN q,
           NEW list \in Seq(Requested), playAt(q, i, list), UNCHANGED ended
    PROVE  ElementInv' /\ RefillInv' /\ saves' \in Seq(Requested)
<1>1. /\ queue' = q /\ index' = i /\ src' = q[i] /\ partway' = FALSE
      /\ playing' \in BOOLEAN /\ pending' = pending
      /\ saves' = WithSave(list, q, i, FALSE) /\ maybeRefill(q, i)
  BY DEF playAt, PointAt, Play
<1>2. i \in 1..Len(q) /\ Len(q) \in Nat /\ q[i] \in Tracks
  BY QueueFacts
<1>3. ElementInv'
  <2>1. queue' \in Queues /\ index' \in 0..Len(queue') /\ index' # 0
    BY <1>1, <1>2
  <2>2. src' \in Tracks \cup {NoTrack} /\ src' = queue'[index']
    BY <1>1, <1>2
  <2>3. partway' \in BOOLEAN /\ pending' \in BOOLEAN
    BY <1>1 DEF ElementInv, TabInv
  <2> QED
    BY <1>1, <2>1, <2>2, <2>3, Zenon DEF ElementInv
<1>4. RefillInv'
  BY <1>1, MaybeRefillFacts DEF RefillInv, TabInv
<1>5. saves' \in Seq(Requested)
  BY <1>1, WithSaveFacts
<1> QED
  BY <1>3, <1>4, <1>5

-----------------------------------------------------------------------------
(* Steps: the server *)

\* A save by index replaces the queue as a whole, or nothing.
LEMMA SaveByIndexFacts ==
    ASSUME ServerInv, NEW ids \in Queues, NEW i \in DOMAIN ids, NEW p \in BOOLEAN,
           save_play_queue_by_index(ids, i, p)
    PROVE  ServerInv'
<1>1. CASE Stored(ids)
  <2>1. /\ header' = [saved |-> TRUE, current |-> ids[i], index |-> i, partway |-> p]
        /\ whole' = [ids |-> ids, current |-> ids[i], index |-> i, partway |-> p]
        /\ entries' = ids /\ tracks' = tracks
    BY <1>1 DEF save_play_queue_by_index, Row, Said
  <2>2. ids[i] \in tracks /\ i \in Nat /\ \A k \in 1..Len(ids) : ids[k] \in tracks
    BY <1>1, QueueFacts DEF Stored, Range
  <2>3. Kept(ids, tracks) = ids
    BY <2>2, QueueFacts, KeptAll
  <2>4. header' \in Rows /\ whole' \in Answered
    BY <2>1, <2>2 DEF Rows, ServerInv, Answered
  <2> QED
    BY <2>1, <2>2, <2>3, <2>4 DEF ServerInv, StoredQueueIsOneSave
<1>2. CASE ~Stored(ids)
  <2>1. UNCHANGED <<header, entries, whole, tracks>>
    BY <1>2 DEF save_play_queue_by_index
  <2> QED
    BY <2>1 DEF ServerInv, StoredQueueIsOneSave
<1> QED
  BY <1>1, <1>2

\* So does the older call, which leaves the index.
LEMMA SaveByIdFacts ==
    ASSUME ServerInv, NEW ids \in Queues, NEW i \in DOMAIN ids, NEW p \in BOOLEAN,
           save_play_queue(ids, ids[i], p)
    PROVE  ServerInv'
<1>1. CASE Stored(ids)
  <2>1. ids[i] \in tracks /\ \A k \in 1..Len(ids) : ids[k] \in tracks
    BY <1>1, QueueFacts DEF Stored, Range
  <2>2. /\ header' = [saved |-> TRUE, current |-> ids[i], index |-> header.index, partway |-> p]
        /\ whole' = [ids |-> ids, current |-> ids[i], index |-> 0, partway |-> p]
        /\ entries' = ids /\ tracks' = tracks
    BY <1>1, <2>1 DEF save_play_queue, Row, Said
  <2>3. Kept(ids, tracks) = ids
    BY <2>1, QueueFacts, KeptAll
  <2>4. header' \in Rows /\ whole' \in Answered
    BY <2>1, <2>2 DEF Rows, ServerInv, Answered
  <2> QED
    BY <2>1, <2>2, <2>3, <2>4 DEF ServerInv, StoredQueueIsOneSave
<1>2. CASE ~Stored(ids)
  <2>1. UNCHANGED <<header, entries, whole, tracks>>
    BY <1>2 DEF save_play_queue
  <2> QED
    BY <2>1 DEF ServerInv, StoredQueueIsOneSave
<1> QED
  BY <1>1, <1>2

\* A deleted track is taken out of the entries and of the row.
LEMMA DeleteTrackFacts ==
    ASSUME ServerInv, NEW t, DeleteTrack(t) PROVE ServerInv'
<1>1. /\ tracks' = tracks \ {t} /\ whole' = whole
      /\ entries' = Kept(entries, Tracks \ {t})
      /\ header' = IF header.current = t
                   THEN [header EXCEPT !.current = NoTrack] ELSE header
  BY DEF DeleteTrack
<1>2. entries' = Kept(whole.ids, tracks')
  <2>1. entries' = Kept(Kept(whole.ids, tracks), Tracks \ {t})
    BY <1>1 DEF ServerInv, StoredQueueIsOneSave
  <2>2. entries' = Kept(whole.ids, tracks \cap (Tracks \ {t}))
    BY <2>1, KeptTwice, QueueFacts DEF ServerInv, Answered
  <2>3. tracks \cap (Tracks \ {t}) = tracks'
    BY <1>1 DEF ServerInv
  <2> QED
    BY <2>2, <2>3
<1>3. /\ header' \in Rows
      /\ header'.current = IF header.current = t THEN NoTrack ELSE header.current
      /\ header'.partway = header.partway /\ header'.index = header.index
  BY <1>1 DEF ServerInv, Rows
<1>4. header'.current = IF whole.current \in tracks' THEN whole.current ELSE NoTrack
  BY <1>1, <1>3, PlayerAssumption DEF ServerInv, StoredQueueIsOneSave, Answered
<1> QED
  BY <1>1, <1>2, <1>3, <1>4 DEF ServerInv, StoredQueueIsOneSave

-----------------------------------------------------------------------------
(* Steps: the user *)

\* What the server has is not touched by a step in the tab.
LEMMA ServerStays == ASSUME ServerInv, UNCHANGED queueVars PROVE ServerInv'
  BY DEF ServerInv, queueVars, StoredQueueIsOneSave

\* Nor is what is on its way from it, in most.
LEMMA RestoreStays ==
    ASSUME WireInv, UNCHANGED restore, saves' \in Seq(Requested) PROVE WireInv'
  BY DEF WireInv

\* A list is played from one of its tracks.
LEMMA PlayListStep ==
    ASSUME TabInv, NEW q \in Lists, NEW i \in DOMAIN q, PlayList(q, i)
    PROVE  TabInv'
<1>1. q \in Queues /\ saves \in Seq(Requested)
  BY PlayerAssumption DEF Queues, TabInv, WireInv
<1>2. ElementInv' /\ RefillInv' /\ saves' \in Seq(Requested)
  BY <1>1, PlayAtFacts DEF PlayList
<1> QED
  BY <1>2, ServerStays, RestoreStays DEF PlayList, TabInv

\* So is the queue from another track.
LEMMA JumpStep ==
    ASSUME TabInv, NEW i \in DOMAIN queue, Jump(i) PROVE TabInv'
<1>1. queue \in Queues /\ saves \in Seq(Requested)
  BY DEF TabInv, ElementInv, WireInv
<1>2. ElementInv' /\ RefillInv' /\ saves' \in Seq(Requested)
  BY <1>1, PlayAtFacts DEF Jump
<1> QED
  BY <1>2, ServerStays, RestoreStays DEF Jump, TabInv

\* A longer queue shows the same track.
LEMMA LongerQueue ==
    ASSUME TabInv, NEW q \in Seq(Tracks), queue' = queue \o q
    PROVE  /\ queue' \in Seq(Tracks) /\ Len(queue') = Len(queue) + Len(q)
           /\ Len(queue) \in Nat /\ Len(q) \in Nat
           /\ index # 0 => src = queue'[index]
<1>1. queue \in Seq(Tracks) /\ Len(queue) \in Nat /\ Len(q) \in Nat
  BY QueueFacts, LenProperties DEF TabInv, ElementInv
<1>2. /\ queue' \in Seq(Tracks) /\ Len(queue') = Len(queue) + Len(q)
      /\ \A i \in 1..Len(queue) : queue'[i] = queue[i]
  BY <1>1, ConcatProperties
<1> QED
  BY <1>1, <1>2 DEF TabInv, ElementInv

\* Tracks are put at the end.
LEMMA EnqueueStep ==
    ASSUME TabInv, NEW q \in Lists, Enqueue(q) PROVE TabInv'
<1>1. /\ queue' = queue \o q /\ Len(queue) + Len(q) <= MaxQueue
      /\ saves' = WithSave(saves, queue', index, partway)
      /\ UNCHANGED <<index, src, playing, partway, pending, refill, ended, restore>>
      /\ UNCHANGED queueVars
  BY DEF Enqueue
<1>2. /\ queue' \in Queues /\ Len(queue) \in Nat /\ Len(queue) <= Len(queue')
      /\ index # 0 => src = queue'[index]
  <2>1. q \in Seq(Tracks)
    BY PlayerAssumption
  <2>2. /\ queue' \in Seq(Tracks) /\ Len(queue') = Len(queue) + Len(q)
        /\ Len(queue) \in Nat /\ Len(q) \in Nat
        /\ index # 0 => src = queue'[index]
    BY <1>1, <2>1, LongerQueue
  <2>3. queue' \in Queues
    <3>1. Len(queue') <= MaxQueue
      BY <1>1, <2>2
    <3> QED
      BY <2>2, <3>1 DEF Queues
  <2>4. Len(queue) <= Len(queue')
    BY <2>2
  <2> QED
    BY <2>2, <2>3, <2>4
<1>3. ElementInv'
  <2>1. index' \in 0..Len(queue') /\ (index' # 0 => src' = queue'[index'])
    BY <1>1, <1>2, QueueFacts DEF TabInv, ElementInv
  <2> QED
    BY <1>1, <1>2, <2>1, Zenon DEF TabInv, ElementInv
<1>4. saves' \in Seq(Requested)
  BY <1>1, <1>2, WithSaveFacts, Zenon DEF TabInv, ElementInv, WireInv
<1>5. RefillInv'
  BY <1>1 DEF RefillInv, TabInv
<1> QED
  BY <1>1, <1>3, <1>4, <1>5, ServerStays, RestoreStays DEF TabInv

\* Within a track.
LEMMA SeekStep == ASSUME TabInv, NEW p \in BOOLEAN, Seek(p) PROVE TabInv'
<1>1. /\ partway' = p
      /\ UNCHANGED <<queue, index, src, playing, pending, refill, ended, restore, saves>>
      /\ UNCHANGED queueVars
  BY DEF Seek
<1>2. ElementInv'
  BY <1>1, Zenon DEF ElementInv, TabInv
<1>3. RefillInv' /\ WireInv'
  BY <1>1 DEF RefillInv, WireInv, TabInv
<1> QED
  BY <1>1, <1>2, <1>3, ServerStays DEF TabInv

\* Pausing saves, playing starts the timer.
LEMMA ToggleStep == ASSUME TabInv, Toggle PROVE TabInv'
<1>1. /\ index > 0 /\ UNCHANGED <<queue, index, src, partway, pending, refill, ended, restore>>
      /\ UNCHANGED queueVars
      /\ playing' \in BOOLEAN
      /\ saves' = saves \/ saves' = WithSave(saves, queue, index, partway)
  BY DEF Toggle, Play
<1>2. saves' \in Seq(Requested)
  BY <1>1, WithSaveFacts, Zenon DEF TabInv, ElementInv, WireInv
<1>3. ElementInv'
  <2>1. index' # 0
    BY <1>1
  <2> QED
    BY <1>1, <2>1, Zenon DEF ElementInv, TabInv
<1>4. RefillInv'
  BY <1>1 DEF RefillInv, TabInv
<1> QED
  BY <1>1, <1>2, <1>3, <1>4, ServerStays, RestoreStays DEF TabInv

\* Endless mode switched on may need a refill at once.
LEMMA SetAutoplayStep == ASSUME TabInv, setAutoplay PROVE TabInv'
<1>1. /\ UNCHANGED <<queue, index, src, playing, partway, pending, ended, restore, saves>>
      /\ UNCHANGED queueVars
      /\ refill' = refill \/ (refill = NoRefill /\ refill' = Range(queue))
  BY DEF setAutoplay
<1>2. ElementInv'
  BY <1>1, Zenon DEF ElementInv, TabInv
<1>3. RefillInv'
  BY <1>1, QueueFacts DEF RefillInv, ElementInv, TabInv
<1>4. WireInv'
  BY <1>1 DEF WireInv, TabInv
<1> QED
  BY <1>1, <1>2, <1>3, <1>4, ServerStays DEF TabInv

\* A new page begins with nothing and asks the server.
LEMMA ReloadStep == ASSUME TabInv, Reload PROVE TabInv'
<1>1. /\ queue' = << >> /\ index' = 0 /\ src' = NoTrack /\ partway' = FALSE
      /\ playing' = FALSE /\ pending' = FALSE
      /\ refill' = NoRefill /\ ended' = 0 /\ restore' = Asked
      /\ saves' = WithSave(saves, queue, index, partway)
      /\ UNCHANGED queueVars
  BY DEF Reload, PointAt
<1>2. << >> \in Queues
  BY PlayerAssumption, EmptySeq DEF Queues
<1>3. ElementInv'
  <2>1. index' \in 0..Len(queue')
    BY <1>1, EmptySeq
  <2> QED
    BY <1>1, <1>2, <2>1 DEF ElementInv
<1>4. RefillInv'
  BY <1>1 DEF RefillInv
<1>5. WireInv'
  <2>1. Asked \in [step : {"header", "entries", "answer", "done"}, row : Rows, list : Queues]
    BY <1>2 DEF Asked, NoHeader, Rows
  <2>2. saves' \in Seq(Requested)
    BY <1>1, WithSaveFacts, Zenon DEF TabInv, ElementInv, WireInv
  <2> QED
    BY <1>1, <2>1, <2>2 DEF WireInv
<1> QED
  BY <1>1, <1>3, <1>4, <1>5, ServerStays DEF TabInv

-----------------------------------------------------------------------------
(* Steps: the audio element and the timers *)

\* Metadata puts the element where it is to go on.
LEMMA LoadedMetadataStep == ASSUME TabInv, loadedmetadata PROVE TabInv'
<1>1. /\ pending' = FALSE /\ partway' = (partway \/ pending)
      /\ UNCHANGED <<queue, index, src, playing, refill, ended, restore, saves>>
      /\ UNCHANGED queueVars
  BY DEF loadedmetadata
<1>2. partway' \in BOOLEAN /\ pending' \in BOOLEAN
  BY <1>1, Zenon DEF ElementInv, TabInv
<1>3. ElementInv'
  BY <1>1, <1>2, Zenon DEF ElementInv, TabInv
<1>4. RefillInv' /\ WireInv'
  BY <1>1 DEF RefillInv, WireInv, TabInv
<1> QED
  BY <1>1, <1>3, <1>4, ServerStays DEF TabInv

\* The track gets on.
LEMMA TimeUpdateStep == ASSUME TabInv, timeupdate PROVE TabInv'
<1>1. /\ partway' = TRUE
      /\ UNCHANGED <<queue, index, src, playing, pending, refill, ended, restore, saves>>
      /\ UNCHANGED queueVars
  BY DEF timeupdate
<1>2. ElementInv'
  BY <1>1, Zenon DEF ElementInv, TabInv
<1>3. RefillInv' /\ WireInv'
  BY <1>1 DEF RefillInv, WireInv, TabInv
<1> QED
  BY <1>1, <1>2, <1>3, ServerStays DEF TabInv

\* The timer saves.
LEMMA PositionTimerStep == ASSUME TabInv, positionTimer PROVE TabInv'
<1>1. /\ saves' = WithSave(saves, queue, index, partway)
      /\ UNCHANGED <<queue, index, src, playing, partway, pending, refill, ended, restore>>
      /\ UNCHANGED queueVars
  BY DEF positionTimer, tabVars
<1>2. saves' \in Seq(Requested)
  BY <1>1, WithSaveFacts, Zenon DEF TabInv, ElementInv, WireInv
<1>3. ElementInv'
  BY <1>1, Zenon DEF ElementInv, TabInv
<1>4. RefillInv'
  BY <1>1 DEF RefillInv, TabInv
<1> QED
  BY <1>1, <1>2, <1>3, <1>4, ServerStays, RestoreStays DEF TabInv

\* At the end of a track the next one plays; at the tail a handler may wait.
LEMMA EndedStep == ASSUME TabInv, Ended PROVE TabInv'
<1> DEFINE list == WithSave(saves, queue, index, TRUE)
<1>1. list \in Seq(Requested) /\ queue \in Queues
  BY WithSaveFacts DEF TabInv, ElementInv, WireInv
<1>2. index # 0 /\ index \in Nat /\ index <= Len(queue) /\ Len(queue) \in Nat
      /\ DOMAIN queue = 1..Len(queue)
  BY <1>1, QueueFacts DEF Ended, TabInv, ElementInv
<1>3. UNCHANGED restore /\ UNCHANGED queueVars
  BY DEF Ended
<1>4. CASE index < Len(queue)
  <2>1. playAt(queue, index + 1, list) /\ UNCHANGED ended
    BY <1>4 DEF Ended
  <2>2. index + 1 \in DOMAIN queue
    BY <1>2, <1>4
  <2> HIDE DEF list
  <2>3. ElementInv' /\ RefillInv' /\ saves' \in Seq(Requested)
    BY <1>1, <2>1, <2>2, PlayAtFacts
  <2> QED
    BY <1>3, <2>3, ServerStays, RestoreStays DEF TabInv
<1>5. CASE ~(index < Len(queue))
  <2>1. /\ playing' = FALSE /\ saves' = list /\ maybeRefill(queue, index)
        /\ ended' = IF autoplay THEN ended + 1 ELSE ended
        /\ UNCHANGED <<queue, index, src, partway, pending>>
    BY <1>5 DEF Ended
  <2>2. Remaining(queue, index) <= REFILL_WHEN_REMAINING
    BY PlayerAssumption, <1>2, <1>5 DEF Remaining
  <2>3. /\ refill' = NoRefill \/ refill' \subseteq Tracks
        /\ refill # NoRefill => refill' # NoRefill
        /\ autoplay => refill' # NoRefill
    BY <1>1, <1>2, <2>1, <2>2, MaybeRefillFacts DEF TabInv
  <2>4. RefillInv'
    BY <2>1, <2>3 DEF RefillInv, TabInv
  <2>5. ElementInv'
    BY <2>1, Zenon DEF ElementInv, TabInv
  <2> QED
    BY <1>1, <1>3, <2>1, <2>4, <2>5, ServerStays, RestoreStays DEF TabInv
<1> QED
  BY <1>4, <1>5

-----------------------------------------------------------------------------
(* Steps: the refill *)

\* What the radio answers fits.
LEMMA ToAddFacts ==
    ASSUME TabInv, NEW fresh \in Continuations(refill),
           Len(queue) + Len(fresh) <= MaxQueue
    PROVE  /\ ToAdd(fresh) \in Seq(Tracks)
           /\ Len(queue) + Len(ToAdd(fresh)) <= MaxQueue
<1>1. fresh \in Seq(Tracks)
  <2>1. PICK n \in 0..2 : fresh \in [1..n -> Fresh]
    BY DEF Continuations
  <2> QED
    BY PlayerAssumption, <2>1, SeqDef
<1>2. /\ ToAdd(fresh) \in Seq(Tracks \cap (Tracks \ Range(queue)))
      /\ Len(ToAdd(fresh)) <= Len(fresh)
  BY <1>1, KeptType DEF ToAdd
<1>3. ToAdd(fresh) \in Seq(Tracks)
  BY <1>2, SeqMonotonic
<1>4. /\ Len(queue) \in Nat /\ Len(fresh) \in Nat /\ Len(ToAdd(fresh)) \in Nat
      /\ MaxQueue \in Nat
  BY PlayerAssumption, <1>1, <1>3, LenProperties, QueueFacts DEF TabInv, ElementInv
<1> QED
  BY <1>2, <1>3, <1>4

\* The handlers that waited go on within the longer queue.
LEMMA RefilledFacts ==
    ASSUME TabInv, NEW toAdd \in Seq(Tracks),
           Len(queue) + Len(toAdd) <= MaxQueue, Refilled(toAdd), ended' = 0
    PROVE  ElementInv' /\ RefillInv' /\ saves' \in Seq(Requested)
<1> DEFINE q == queue \o toAdd
           k == IF ended < Len(q) - index THEN ended ELSE Len(q) - index
           list == IF toAdd = << >> THEN saves ELSE WithSave(saves, q, index, partway)
           more == [j \in 1..k |-> Snapshot(q, index + j, FALSE)]
<1>1. /\ queue' = q /\ index' = index + k /\ pending' = pending
      /\ k > 0 => /\ src' = q[index + k] /\ partway' = FALSE
                  /\ saves' = IF Restoring THEN list ELSE list \o more
                  /\ refill' = NoRefill \/ refill' = Range(q)
      /\ ~(k > 0) => saves' = list /\ refill' = NoRefill /\ UNCHANGED <<src, partway>>
      /\ playing' = FALSE \/ (k > 0 /\ playing' \in BOOLEAN) \/ UNCHANGED playing
  BY DEF Refilled, PointAt, Play
<1>2. /\ q \in Queues /\ Len(q) = Len(queue) + Len(toAdd)
      /\ Len(queue) \in Nat /\ Len(toAdd) \in Nat
      /\ index # 0 => src = q[index]
  <2>1. queue' = queue \o toAdd
    BY <1>1
  <2>2. /\ queue' \in Seq(Tracks) /\ Len(queue') = Len(queue) + Len(toAdd)
        /\ Len(queue) \in Nat /\ Len(toAdd) \in Nat
        /\ index # 0 => src = queue'[index]
    BY <2>1, LongerQueue
  <2> QED
    BY <2>1, <2>2 DEF Queues
<1>3. index \in 0..Len(queue) /\ ended \in Nat
  BY DEF TabInv, ElementInv, RefillInv
<1> HIDE DEF q
<1>4. k \in Nat /\ index + k \in 0..Len(q)
  BY <1>2, <1>3
<1> HIDE DEF k
<1>5. /\ k > 0 => index + k \in DOMAIN q /\ q[index + k] \in Tracks
      /\ k > 0 => q # << >>
      /\ Range(q) \subseteq Tracks
  <2>1. /\ DOMAIN q = 1..Len(q) /\ \A i \in DOMAIN q : q[i] \in Tracks
        /\ Range(q) \subseteq Tracks /\ Len(q) \in Nat
    BY <1>2, QueueFacts
  <2>2. k > 0 => index + k \in 1..Len(q)
    BY <1>3, <1>4
  <2> QED
    BY <2>1, <2>2, EmptySeq
<1>6. ElementInv'
  <2>1. queue' \in Queues /\ index' \in 0..Len(queue')
    BY <1>1, <1>2, <1>4
  <2>2. src' \in Tracks \cup {NoTrack} /\ (index' # 0 => src' = queue'[index'])
    <3>1. CASE k > 0
      BY <1>1, <1>5, <3>1
    <3>2. CASE ~(k > 0)
      <4>1. k = 0 /\ index' = index
        BY <1>1, <1>3, <1>4, <3>2
      <4> QED
        BY <1>1, <1>2, <3>2, <4>1 DEF TabInv, ElementInv
    <3> QED
      BY <3>1, <3>2
  <2>3. (k > 0 => index' # 0) /\ (index # 0 => index' # 0)
    BY <1>1, <1>3, <1>4
  <2>4. playing' \in BOOLEAN /\ (playing' => index' # 0)
    <3>1. CASE playing' = FALSE
      BY <3>1
    <3>2. CASE k > 0 /\ playing' \in BOOLEAN
      BY <2>3, <3>2
    <3>3. CASE UNCHANGED playing
      BY <2>3, <3>3, Zenon DEF TabInv, ElementInv
    <3> QED
      BY <1>1, <3>1, <3>2, <3>3
  <2>5. partway' \in BOOLEAN /\ pending' \in BOOLEAN
    BY <1>1, Zenon DEF TabInv, ElementInv
  <2> QED
    BY <2>1, <2>2, <2>4, <2>5, Zenon DEF ElementInv
<1>7. RefillInv'
  <2>1. refill' = NoRefill \/ refill' \subseteq Tracks
    <3>1. CASE k > 0
      BY <1>1, <1>5, <3>1, Zenon
    <3>2. CASE ~(k > 0)
      BY <1>1, <3>2, Zenon
    <3> QED
      BY <3>1, <3>2
  <2> QED
    BY <2>1 DEF RefillInv
<1>8. saves' \in Seq(Requested)
  <2>1. list \in Seq(Requested)
    <3>1. saves \in Seq(Requested) /\ partway \in BOOLEAN
      BY DEF TabInv, WireInv, ElementInv
    <3> QED
      BY <1>2, <3>1, WithSaveFacts
  <2>2. k > 0 => more \in Seq(Requested)
    <3> SUFFICES ASSUME k > 0 PROVE more \in Seq(Requested)
      OBVIOUS
    <3>1. \A j \in 1..k : Snapshot(q, index + j, FALSE) \in Requested
      BY <1>2, <1>5, SnapshotFacts
    <3>2. more \in [1..k -> Requested]
      BY <3>1
    <3> QED
      BY <1>4, <3>2, SeqDef
  <2> HIDE DEF list, more
  <2>3. k > 0 => list \o more \in Seq(Requested)
    BY <2>1, <2>2, ConcatProperties
  <2> QED
    BY <1>1, <2>1, <2>3
<1> QED
  BY <1>6, <1>7, <1>8

\* The answer of the radio.
LEMMA RefillArrivesStep == ASSUME TabInv, RefillArrives PROVE TabInv'
<1> PICK fresh \in Continuations(refill) :
         Len(queue) + Len(fresh) <= MaxQueue /\ Refilled(ToAdd(fresh))
  BY DEF RefillArrives
<1>1. ended' = 0 /\ UNCHANGED restore /\ UNCHANGED queueVars
  BY DEF RefillArrives
<1>2. ToAdd(fresh) \in Seq(Tracks) /\ Len(queue) + Len(ToAdd(fresh)) <= MaxQueue
  BY ToAddFacts
<1>3. ElementInv' /\ RefillInv' /\ saves' \in Seq(Requested)
  BY <1>1, <1>2, RefilledFacts
<1> QED
  BY <1>1, <1>3, ServerStays, RestoreStays DEF TabInv

-----------------------------------------------------------------------------
(* Steps: requests on their way *)

\* The tab does not notice what happens to its requests.
LEMMA TabStays ==
    ASSUME ElementInv, RefillInv, UNCHANGED tabVars PROVE ElementInv' /\ RefillInv'
<1>1. UNCHANGED <<queue, index, src, playing, partway, pending, refill, ended>>
  BY DEF tabVars
<1>2. ElementInv'
  BY <1>1, Zenon DEF ElementInv
<1>3. RefillInv'
  BY <1>1 DEF RefillInv
<1> QED
  BY <1>2, <1>3

\* The server's two reads for the restore.
LEMMA RestoreReadsStep ==
    ASSUME TabInv, RestoreHeader \/ RestoreEntries PROVE TabInv'
<1>1. UNCHANGED tabVars /\ UNCHANGED queueVars /\ UNCHANGED saves
  BY DEF RestoreHeader, RestoreEntries
<1>2. /\ restore \in [step : {"header", "entries", "answer", "done"}, row : Rows, list : Queues]
      /\ header \in Rows /\ entries \in Queues
  BY EntriesFacts DEF TabInv, WireInv, ServerInv
<1>3. restore' \in [step : {"header", "entries", "answer", "done"}, row : Rows, list : Queues]
  <2>1. CASE RestoreHeader
    BY <1>2, <2>1 DEF RestoreHeader
  <2>2. CASE RestoreEntries
    BY <1>2, <2>2 DEF RestoreEntries
  <2> QED
    BY <2>1, <2>2
<1>4. WireInv'
  BY <1>1, <1>3 DEF WireInv, TabInv
<1> QED
  BY <1>1, <1>4, TabStays, ServerStays DEF TabInv

\* A restore that has ended left nothing behind.
LEMMA RestoredFacts ==
    Restored \in [step : {"header", "entries", "answer", "done"}, row : Rows, list : Queues]
<1>1. << >> \in Queues
  BY PlayerAssumption, EmptySeq DEF Queues
<1> QED
  BY <1>1 DEF Restored, Asked, NoHeader, Rows

\* The answer replaces the queue, and the element is pointed at its track.
LEMMA RestoreArrivesStep == ASSUME TabInv, RestoreArrives PROVE TabInv'
<1> DEFINE row == restore.row
           list == restore.list
<1>1. restore' = Restored /\ UNCHANGED saves /\ UNCHANGED queueVars
  BY DEF RestoreArrives
<1>2. row \in Rows /\ list \in Queues
  BY DEF TabInv, WireInv
<1>3. WireInv'
  BY <1>1, RestoredFacts DEF WireInv, TabInv
<1>4. CASE UNCHANGED tabVars
  BY <1>1, <1>3, <1>4, TabStays, ServerStays DEF TabInv
<1>5. CASE ~(~row.saved \/ list = << >>)
  <2> HIDE DEF row, list
  <2>1. /\ queue' = list /\ index' = RestoredIndex(row, list)
        /\ src' = list[index'] /\ partway' = FALSE /\ playing' = FALSE
        /\ pending' = row.partway /\ UNCHANGED <<refill, ended>>
    BY <1>5 DEF RestoreArrives, PointAt, row, list
  <2>2. DOMAIN list = 1..Len(list) /\ Len(list) \in Nat /\ Len(list) > 0
        /\ \A i \in DOMAIN list : list[i] \in Tracks
    BY <1>2, <1>5, QueueFacts
  <2>3. index' \in DOMAIN list
    BY <2>1, <2>2 DEF RestoredIndex
  <2>4. ElementInv'
    <3>1. queue' \in Queues /\ index' \in 0..Len(queue')
      BY <1>2, <2>1, <2>2, <2>3
    <3>2. src' \in Tracks /\ src' = queue'[index']
      BY <2>1, <2>2, <2>3
    <3>3. partway' \in BOOLEAN /\ pending' \in BOOLEAN
      BY <1>2, <2>1 DEF Rows
    <3> QED
      BY <2>1, <3>1, <3>2, <3>3 DEF ElementInv
  <2>5. RefillInv'
    BY <2>1 DEF RefillInv, TabInv
  <2> QED
    BY <1>1, <1>3, <2>4, <2>5, ServerStays DEF TabInv
<1> QED
  BY <1>4, <1>5 DEF RestoreArrives

\* Or it never comes.
LEMMA RestoreFailsStep == ASSUME TabInv, RestoreFails PROVE TabInv'
<1>1. /\ restore' = Restored /\ UNCHANGED saves
      /\ UNCHANGED queueVars /\ UNCHANGED tabVars
  BY DEF RestoreFails
<1>2. WireInv'
  BY <1>1, RestoredFacts DEF WireInv, TabInv
<1> QED
  BY <1>1, <1>2, TabStays, ServerStays DEF TabInv

\* A request taken out of the list leaves a list of requests.
LEMMA RemoveAtFacts ==
    ASSUME WireInv, NEW k \in DOMAIN saves
    PROVE  /\ RemoveAt(saves, k) \in Seq(Requested)
           /\ saves[k] \in Requested
<1>1. Len(saves) \in Nat /\ k \in 1..Len(saves) /\ \A i \in 1..Len(saves) : saves[i] \in Requested
  BY LenProperties DEF WireInv
<1>2. /\ SubSeq(saves, 1, k - 1) \in Seq(Requested)
      /\ SubSeq(saves, k + 1, Len(saves)) \in Seq(Requested)
  BY <1>1, SubSeqProperties
<1>3. SubSeq(saves, 1, k - 1) \o SubSeq(saves, k + 1, Len(saves)) \in Seq(Requested)
  BY <1>2, ConcatProperties
<1> QED
  BY <1>1, <1>3 DEF RemoveAt

\* A request is served, whichever.
LEMMA SaveArrivesStep ==
    ASSUME TabInv, NEW k \in DOMAIN saves, SaveArrives(k) PROVE TabInv'
<1>1. /\ save_play_queue_by_index(saves[k].ids, saves[k].index, saves[k].partway)
      /\ saves' = RemoveAt(saves, k)
      /\ UNCHANGED tabVars /\ UNCHANGED restore
  BY DEF SaveArrives
<1>2. saves' \in Seq(Requested) /\ saves[k] \in Requested
  BY <1>1, RemoveAtFacts DEF TabInv
<1>3. /\ saves[k].ids \in Queues /\ saves[k].index \in DOMAIN saves[k].ids
      /\ saves[k].partway \in BOOLEAN
  BY <1>2 DEF Requested
<1>4. ServerInv'
  BY <1>1, <1>3, SaveByIndexFacts DEF TabInv
<1> QED
  BY <1>1, <1>2, <1>4, TabStays, RestoreStays DEF TabInv

\* Or lost.
LEMMA SaveLostStep ==
    ASSUME TabInv, NEW k \in DOMAIN saves, SaveLost(k) PROVE TabInv'
<1>1. /\ saves' = RemoveAt(saves, k) /\ UNCHANGED queueVars
      /\ UNCHANGED tabVars /\ UNCHANGED restore
  BY DEF SaveLost
<1>2. saves' \in Seq(Requested)
  BY <1>1, RemoveAtFacts DEF TabInv
<1> QED
  BY <1>1, <1>2, TabStays, RestoreStays, ServerStays DEF TabInv

\* The other client saves, either way.
LEMMA OtherSavesStep ==
    ASSUME TabInv, NEW q \in Lists, OtherSaves(q) PROVE TabInv'
<1>1. PICK i \in DOMAIN q, p \in BOOLEAN :
         save_play_queue_by_index(q, i, p) \/ save_play_queue(q, q[i], p)
  BY DEF OtherSaves
<1>2. UNCHANGED tabVars /\ UNCHANGED restore /\ UNCHANGED saves
  BY DEF OtherSaves
<1>3. q \in Queues
  BY PlayerAssumption DEF Queues
<1>4. ServerInv'
  BY <1>1, <1>3, SaveByIndexFacts, SaveByIdFacts DEF TabInv
<1>5. WireInv'
  BY <1>2 DEF WireInv, TabInv
<1> QED
  BY <1>2, <1>4, <1>5, TabStays DEF TabInv

\* A scan deletes a track.
LEMMA ScanDeletesStep ==
    ASSUME TabInv, NEW t, ScanDeletes(t) PROVE TabInv'
<1>1. DeleteTrack(t) /\ UNCHANGED tabVars /\ UNCHANGED restore /\ UNCHANGED saves
  BY DEF ScanDeletes
<1>2. ServerInv'
  BY <1>1, DeleteTrackFacts DEF TabInv
<1>3. WireInv'
  BY <1>1 DEF WireInv, TabInv
<1> QED
  BY <1>1, <1>2, <1>3, TabStays DEF TabInv

-----------------------------------------------------------------------------
(* Theorems *)

\* A page is loaded, and the server may have a queue.
LEMMA InitTabInv == PlayerInit => TabInv
<1> SUFFICES ASSUME PlayerInit PROVE TabInv
  OBVIOUS
<1>1. << >> \in Queues /\ << >> \in Seq(Requested)
  BY PlayerAssumption, EmptySeq DEF Queues
<1>2. ServerInv
  <2>1. CASE header = NoHeader /\ entries = << >> /\ whole = Said(<< >>, NoTrack, 0, FALSE)
    <3>1. Kept(<< >>, tracks) = << >>
      BY <1>1, QueueFacts, KeptAll
    <3>2. /\ header \in Rows /\ whole \in Answered
          /\ header.current = NoTrack /\ header.partway = FALSE
          /\ whole.ids = << >> /\ whole.current = NoTrack /\ whole.index = 0
          /\ whole.partway = FALSE
      BY <1>1, <2>1 DEF NoHeader, Rows, Said, Answered
    <3> QED
      BY <1>1, <2>1, <3>1, <3>2, PlayerAssumption DEF PlayerInit, ServerInv, StoredQueueIsOneSave
  <2>2. ASSUME NEW q \in Lists, NEW i \in DOMAIN q,
               header = Row(q[i], i, TRUE), entries = q,
               whole = Said(q, q[i], i, TRUE)
        PROVE  ServerInv
    <3>1. q \in Queues /\ tracks = Tracks
      BY PlayerAssumption DEF Queues, PlayerInit
    <3>2. i \in 1..Len(q) /\ \A k \in 1..Len(q) : q[k] \in Tracks
      BY <3>1, QueueFacts
    <3>3. Kept(q, tracks) = q
      BY <3>1, <3>2, QueueFacts, KeptAll
    <3>4. /\ header \in Rows /\ header.current \in Tracks /\ header.current = q[i]
          /\ header.index = i /\ header.partway = TRUE
          /\ whole \in Answered /\ whole.ids = q /\ whole.current = q[i]
          /\ whole.index = i /\ whole.partway = TRUE
      BY <2>2, <3>1, <3>2 DEF Row, Rows, Said, Answered
    <3> QED
      BY <2>2, <3>1, <3>3, <3>4 DEF ServerInv, StoredQueueIsOneSave
  <2> QED
    BY <2>1, <2>2 DEF PlayerInit, QueueInit
<1>3. ElementInv
  <2>1. queue = << >> /\ index = 0 /\ 0 \in 0..Len(<< >>)
    BY EmptySeq DEF PlayerInit
  <2> QED
    BY <1>1, <2>1 DEF PlayerInit, ElementInv
<1>4. RefillInv
  BY DEF PlayerInit, RefillInv
<1>5. WireInv
  BY <1>1 DEF PlayerInit, WireInv, Asked, NoHeader, Rows
<1> QED
  BY <1>2, <1>3, <1>4, <1>5 DEF TabInv

\* The invariant of the player is inductive.
LEMMA StepTabInv == TabInv /\ [PlayerNext]_(playerVars) => TabInv'
<1> SUFFICES ASSUME TabInv, [PlayerNext]_(playerVars) PROVE TabInv'
  OBVIOUS
<1>1. CASE UNCHANGED playerVars
  <2>1. UNCHANGED tabVars /\ UNCHANGED queueVars /\ UNCHANGED restore /\ UNCHANGED saves
    BY <1>1 DEF playerVars
  <2>2. WireInv'
    BY <2>1 DEF WireInv, TabInv
  <2> QED
    BY <2>1, <2>2, TabStays, ServerStays DEF TabInv
<1>2. CASE User
  BY <1>2, PlayListStep, JumpStep, EnqueueStep, SeekStep, ToggleStep, SetAutoplayStep,
     ReloadStep DEF User
<1>3. CASE loadedmetadata \/ timeupdate \/ Ended \/ positionTimer
  BY <1>3, LoadedMetadataStep, TimeUpdateStep, EndedStep, PositionTimerStep
<1>4. CASE RefillArrives \/ RestoreStep \/ RestoreFails
  BY <1>4, RefillArrivesStep, RestoreReadsStep, RestoreArrivesStep, RestoreFailsStep
     DEF RestoreStep
<1>5. CASE \E k \in DOMAIN saves : SaveArrives(k) \/ SaveLost(k)
  BY <1>5, SaveArrivesStep, SaveLostStep
<1> QED
  BY <1>1, <1>2, <1>3, <1>4, <1>5, OtherSavesStep, ScanDeletesStep DEF PlayerNext

\* It holds throughout every behaviour.
LEMMA TabInvariant == PlayerSpec => []TabInv
<1>1. PlayerInit => TabInv
  BY InitTabInv
<1>2. TabInv /\ [PlayerNext]_(playerVars) => TabInv'
  BY StepTabInv
<1> QED
  BY <1>1, <1>2, PTL DEF PlayerSpec

\* What is shown as current is what the audio element was given, and the index
\* is in the queue, however a restore with its two reads races saves, deletions
\* and the user (player.ts 223-240, 318-345).
THEOREM ShownIsPlayed == PlayerSpec => []PlaysWhatIsShown
<1>1. ASSUME TabInv PROVE PlaysWhatIsShown
  <2>1. queue \in Seq(Tracks) /\ Len(queue) <= MaxQueue
    BY <1>1, QueueFacts DEF TabInv, ElementInv
  <2>2. \A k \in DOMAIN saves : saves[k] \in Save /\ saves[k].index \in DOMAIN saves[k].ids
    BY <1>1, RemoveAtFacts, QueueFacts DEF TabInv, Requested, Save
  <2>3. PlayerTypeOK
    BY <1>1, <2>1, <2>2 DEF TabInv, ElementInv, RefillInv, PlayerTypeOK
  <2> QED
    BY <1>1, <2>3 DEF TabInv, ElementInv, PlaysWhatIsShown
<1> QED
  BY <1>1, TabInvariant, PTL

\* What the server stores is the save it served last: its entries less the tracks
\* deleted since, its current track if that is left, its place in it, and its
\* index if it was by index (queries.py 713-814).
THEOREM StoredIsOneSave == PlayerSpec => []StoredQueueIsOneSave
<1>1. TabInv => StoredQueueIsOneSave
  BY DEF TabInv, ServerInv
<1> QED
  BY <1>1, TabInvariant, PTL

\* A track that ended at the tail in endless mode waits for a request that is in
\* flight, whatever the user does meanwhile (player.ts 118-132, 254-267).
THEOREM NoTrackWaitsInVain == PlayerSpec => []EndedTracksAwaitAnAnswer
<1>1. TabInv => EndedTracksAwaitAnAnswer
  BY DEF TabInv, RefillInv, EndedTracksAwaitAnAnswer
<1> QED
  BY <1>1, TabInvariant, PTL
=============================================================================

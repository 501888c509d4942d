------------------------------ MODULE Decision ------------------------------
(***************************************************************************)
(* What a stream is served as: the server's policy and presets             *)
(* (streaming/presets.py, streaming/streamer.py) and the answer of         *)
(* getTranscodeDecision (streaming/decision.py), which is computed apart   *)
(* from them and announces what a later stream request will get.           *)
(*                                                                         *)
(* Bit rates are in kbit/s, but what clients declare is in bit/s; 0 is an  *)
(* absent number, "" an absent name. Of the numeric properties of a        *)
(* source, bit rate and channels stand for the four. An empty set in a     *)
(* profile means any. What a preset passes to ffmpeg, the text of the      *)
(* reasons and their order are left out.                                   *)
(***************************************************************************)
EXTENDS Integers, Sequences, FiniteSets, FiniteSetsExt

MAX_TRANSCODE_BITRATE == 320
BITRATES == {128, 192, 256, 320}
PRESETS == {"mp3", "aac", "opus"} \X BITRATES
SUPPORTED_TRANSCODE_CODECS == {p[1] : p \in PRESETS}
OK_PROTOCOLS == {"", "http"}

Raw == [raw |-> TRUE]
Or(n, default) == IF n = 0 THEN default ELSE n
Least(a, b) == IF a <= b THEN a ELSE b
Capped(n, cap) == IF cap = 0 THEN n ELSE Least(n, cap)

codec_for_suffix(suffix) ==
    CASE suffix \in {"m4a", "m4b", "mp4", "aac"} -> "aac"
      [] suffix \in {"ogg", "oga"} -> "vorbis"
      [] suffix \in {"wav", "aif", "aiff"} -> "pcm"
      [] suffix = "wv" -> "wavpack"
      [] OTHER -> suffix

-----------------------------------------------------------------------------
(* What is served. A policy: [enabled, format, bitrate, cap].              *)

_apply_policy_Uncapped(policy, format, maxBitRate) ==  \* mutant: only the default is
    LET fmt == IF format = "" THEN policy.format ELSE format
        cap == Capped(MAX_TRANSCODE_BITRATE, policy.cap)
    IN  IF ~policy.enabled \/ fmt = "raw" THEN [format |-> "raw"]
        ELSE [format |-> fmt,
              bitrate |-> IF maxBitRate = -1 THEN Least(policy.bitrate, cap) ELSE maxBitRate]
(* The format, or "raw", and the bit rate asked for, which may be 0.       *)
_apply_policy(policy, format, maxBitRate) ==
    LET fmt == IF format = "" THEN policy.format ELSE format
        cap == Capped(MAX_TRANSCODE_BITRATE, policy.cap)
    IN  IF ~policy.enabled \/ fmt = "raw" THEN [format |-> "raw"]
        ELSE [format |-> fmt,
              \* maxBitRate is absent when -1: 0 is a number like any other
              bitrate |-> Least(IF maxBitRate = -1 THEN policy.bitrate ELSE maxBitRate, cap)]

Distance(a, b) == IF a >= b THEN a - b ELSE b - a

(* The rung closest to the bit rate, the lower of two.                     *)
Snapped(bitrate) ==
    CHOOSE b \in BITRATES :
        \A c \in BITRATES : \/ Distance(b, bitrate) < Distance(c, bitrate)
                            \/ Distance(b, bitrate) = Distance(c, bitrate) /\ b <= c

(* The source is left as it is when re-encoding would not shrink it.       *)
KeepsSource(asked, source) ==
    /\ asked.format = source.suffix
    /\ source.kbps # 0 /\ asked.bitrate >= source.kbps

resolve_preset(policy, asked, source) ==
    IF asked.format \notin SUPPORTED_TRANSCODE_CODECS \/ KeepsSource(asked, source)
    THEN Raw
    ELSE [raw |-> FALSE, format |-> asked.format,
          bitrate |-> Snapped(Least(Or(asked.bitrate, policy.bitrate),
                                    MAX_TRANSCODE_BITRATE))]

Served(policy, source, format, maxBitRate) ==
    LET asked == _apply_policy(policy, format, maxBitRate) IN
    IF asked.format = "raw" THEN Raw ELSE resolve_preset(policy, asked, source)

-----------------------------------------------------------------------------
(* What is announced. A client: [direct, codecs, targets, maxAudio,        *)
(* maxTranscoding], each profile with the fields used below.               *)

_satisfies(actual, comparison, values) ==
    \/ values = {}
    \/ CASE comparison \in {"", "LessThanEqual"} -> actual <= Max(values)
         [] comparison = "LessThan" -> actual < Max(values)
         [] comparison = "GreaterThanEqual" -> actual >= Min(values)
         [] comparison = "GreaterThan" -> actual > Min(values)
         [] comparison \in {"Equals", "EqualsAny"} -> actual \in values
         [] comparison \in {"NotEquals", "NotEqualsAny"} -> actual \notin values
         [] OTHER -> TRUE

Actual(source, name) ==
    CASE name = "audioBitrate" -> 1000 * source.kbps
      [] name = "audioChannels" -> source.channels
      [] OTHER -> 0

(* A limitation of a property the server does not know passes.             *)
_check_codec_profiles(source, profiles) ==
    \A cp \in profiles : \A lim \in cp.limitations :
        \/ cp.type \notin {"", "AudioCodec"} \/ cp.name # codec_for_suffix(source.suffix)
        \/ Actual(source, lim.name) = 0
        \/ _satisfies(Actual(source, lim.name), lim.comparison, lim.values)

_direct_play_accepts(profile, source) ==
    /\ profile.containers = {} \/ source.suffix \in profile.containers
    /\ profile.codecs = {} \/ codec_for_suffix(source.suffix) \in profile.codecs
    /\ profile.protocols = {} \/ "http" \in profile.protocols
    /\ profile.channels = 0 \/ source.channels = 0 \/ source.channels <= profile.channels

NoTarget == [codec |-> ""]

_pick_transcode_target(targets, default) ==
    LET usable == {i \in DOMAIN targets :
                      /\ targets[i].codec \in SUPPORTED_TRANSCODE_CODECS
                      /\ targets[i].protocol \in OK_PROTOCOLS}
    IN  IF usable # {} THEN [codec |-> targets[Min(usable)].codec]
        ELSE IF default \in SUPPORTED_TRANSCODE_CODECS THEN [codec |-> default]
        ELSE NoTarget

_direct_play(client, source) ==
    /\ client.maxAudio = 0 \/ source.kbps = 0 \/ 1000 * source.kbps <= client.maxAudio
    /\ _check_codec_profiles(source, client.codecs)
    /\ \E profile \in client.direct : _direct_play_accepts(profile, source)

cap_bps(client, source) ==
    Capped(Capped(1000 * MAX_TRANSCODE_BITRATE, client.maxTranscoding), 1000 * source.kbps)

_target_kbps_MayBeZero(client, source) ==  \* mutant: which asks for the default
    cap_bps(client, source) \div 1000
(* Never 0, be the ceiling below 1 kbit/s.                                 *)
_target_kbps(client, source) ==
    IF cap_bps(client, source) < 1000 THEN 1 ELSE cap_bps(client, source) \div 1000

transcode_params(target, kbps) == [format |-> target.codec, maxBitRate |-> kbps]

decide(client, source, policy) ==
    LET direct == _direct_play(client, source)
        target == _pick_transcode_target(client.targets, policy.format)
        transcodes == ~direct /\ policy.enabled /\ target # NoTarget
        kbps == _target_kbps(client, source)
    IN  [canDirectPlay |-> direct,
         canTranscode |-> policy.enabled /\ (direct \/ target # NoTarget),
         stream |-> IF transcodes THEN {[codec |-> target.codec, kbps |-> kbps]} ELSE {},
         params |-> IF transcodes THEN {transcode_params(target, kbps)} ELSE {}]

-----------------------------------------------------------------------------
(* Byte ranges. A header is << >> (absent or not understood, the suffix    *)
(* form included), <<first>> or <<first, last>>.                           *)

Whole == << >>

_parse_range_Unclipped(header, size) ==    \* mutant: the end is not clipped
    IF header = << >> \/ header[1] >= size THEN Whole
    ELSE <<header[1], IF Len(header) = 2 THEN header[2] ELSE size - 1>>
(* Unsatisfiable ranges are ignored: the whole file is served.             *)
_parse_range(header, size) ==
    IF header = << >> THEN Whole
    ELSE LET first == header[1]
             last == IF Len(header) = 2 THEN header[2] ELSE size - 1
         IN  IF first >= size \/ last < first THEN Whole
             ELSE <<first, Least(last, size - 1)>>
=============================================================================

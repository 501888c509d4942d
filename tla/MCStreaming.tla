---------------------------- MODULE MCStreaming ----------------------------
(* In one behaviour either every kind of request is made of every kind of  *)
(* track, and bodies are not followed, or one track and one client are     *)
(* fixed and they are.                                                     *)
EXTENDS Streaming

CONSTANT s1

VARIABLE workload

MCStreams == {s1}

Policy(enabled, format, bitrate, cap) ==
    [enabled |-> enabled, format |-> format, bitrate |-> bitrate, cap |-> cap]
MCPolicies == {Policy(TRUE, "raw", 192, 0), Policy(TRUE, "mp3", 192, 100),
               Policy(TRUE, "ogg", 256, 192), Policy(FALSE, "mp3", 192, 0)}

Row(suffix, kbps, channels) == [suffix |-> suffix, kbps |-> kbps, channels |-> channels]
MCSources == {Row("mp3", 170, 2), Row("flac", 900, 6), Row("m4a", 128, 0), Row("aac", 0, 2)}

Unrestricted == [containers |-> {}, codecs |-> {}, protocols |-> {}, channels |-> 0]
Limit(comparison, values) ==
    [name |-> "audioBitrate", comparison |-> comparison, values |-> values]
Profile(type, name, limitations) ==
    [type |-> type, name |-> name, limitations |-> limitations]
MCClients ==
    {[direct |-> {}, codecs |-> {}, targets |-> << >>, maxAudio |-> 0, maxTranscoding |-> 500],
     [direct |-> {[Unrestricted EXCEPT !.containers = {"mp3", "aac"}]},
      codecs |-> {Profile("AudioCodec", "mp3", {Limit("", {128000})}),
                  Profile("", "flac", {Limit("Equals", {})}),
                  Profile("VideoCodec", "aac", {Limit("LessThan", {1000})})},
      targets |-> <<[codec |-> "aac", protocol |-> "hls"],
                    [codec |-> "opus", protocol |-> "http"]>>,
      maxAudio |-> 0, maxTranscoding |-> 96000],
     [direct |-> {[Unrestricted EXCEPT !.channels = 2,
                                         !.protocols = {"http"}]}, codecs |-> {},
      targets |-> <<[codec |-> "mp3", protocol |-> ""]>>,
      maxAudio |-> 160000, maxTranscoding |-> 0]}

MCFormats == {"", "raw", "mp3", "opus", "vorbis"}
MCBitRates == {-1, 0, 100, 170, 500}
MCHeaders == {<< >>, <<0>>, <<2>>, <<1, 2>>, <<2, 1>>, <<2, 9>>, <<9>>}
MCOffsets == {-1, 2, 9}
MCSizes == {0, 3, 5}

MCInit ==
    /\ Init /\ workload \in {"answers", "bodies"}
    /\ workload = "answers" => file = 5
    /\ workload = "bodies" =>
          /\ policy = Policy(TRUE, "mp3", 192, 100) /\ source = Row("flac", 900, 6)
          /\ client.direct = {}

MCNext ==
    /\ \/ workload = "answers" /\ file' = file
          /\ (Answers \/ \E s \in Streams : CloseFile(s))
       \/ workload = "bodies" /\ source' = source /\ answer' = answer
          /\ (Bodies \/ Answers)
    /\ UNCHANGED workload

MCSpec == MCInit /\ [][MCNext]_<<vars, workload>> /\ TranscoderFairness
=============================================================================

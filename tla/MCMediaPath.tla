----------------------------- MODULE MCMediaPath -----------------------------
(***************************************************************************)
(* Constants of the TLC run of MediaPath.                                  *)
(***************************************************************************)
EXTENDS MediaPath

CONSTANTS small, large

\* NVENC's sessions may all be taken, and then HEVC in hardware gives way to AV1 in
\* software, or, on a server without any, to nothing.
MCEncoderHosts == {{"hevc_nvenc", "libsvtav1", "libx264"}, {"hevc_nvenc"}}

\* One client has two GPUs, QSV opening without its hardware, and every software
\* decoder; one advertises the codecs of its phone's chip and asks for a bitrate;
\* one has an old server that does not name codecs, and no decoder for AV1.
gpus == {"hevc_cuvid", "hevc_vaapi"}
MCClients == {
    [supported |-> {}, rate |-> [kind |-> "quality", value |-> 255, crf |-> -1], tagged |-> TRUE, audio |-> FALSE,
     opens |-> gpus \cup {"av1_qsv"} \cup SoftwareDecoder, works |-> gpus \cup SoftwareDecoder],
    [supported |-> {"h265", "h264"}, rate |-> [kind |-> "kbps", value |-> 0, crf |-> 30],
     tagged |-> TRUE, audio |-> TRUE, opens |-> {"hevc_cuvid", "h264"}, works |-> {"hevc_cuvid", "h264"}],
    [supported |-> {}, rate |-> [kind |-> "quality", value |-> 75, crf |-> -1], tagged |-> FALSE, audio |-> FALSE,
     opens |-> {"hevc_cuvid", "hevc", "h264"}, works |-> {"hevc_cuvid", "hevc", "h264"}],
    [supported |-> {}, rate |-> [kind |-> "quality", value |-> 0, crf |-> -1], tagged |-> TRUE, audio |-> FALSE,
     opens |-> {"hevc_cuvid"}, works |-> {"hevc_cuvid"}]}
==============================================================================

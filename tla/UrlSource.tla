----------------------------- MODULE UrlSource -----------------------------
(***************************************************************************)
(* cpkt_audio_url_source: a response streamed by libcurl into a buffer     *)
(* that keeps the last RewindBytes behind the read cursor, so that a       *)
(* decoder can seek back a little.  The transfer only moves while a read,  *)
(* a seek or the format detection waits for it.  A byte is its offset in   *)
(* the response.                                                           *)
(*                                                                         *)
(* Below it is a WAV or FLAC decoder, that is any order of reads and       *)
(* seeks, or the MP3 mode of a URL decoder: decode_next_frame over the     *)
(* source, and read_f32_mono_16k over it.  An MP3 response is a tag of     *)
(* TagBytes and then frames of FrameBytes; a frame is its number.          *)
(***************************************************************************)
EXTENDS Naturals, SequencesExt, FiniteSetsExt

CONSTANTS
  RewindBytes,      \* CPKT_AUDIO_URL_REWIND_BYTES
  SignatureBytes,   \* bytes the format detection waits for (16)
  Length,           \* bytes of the response
  MaxChunk,         \* bound: bytes of one write callback
  MaxRead           \* bound: bytes asked for by one read

UrlSourceAssumption ==
  /\ RewindBytes \in Nat /\ SignatureBytes \in Nat /\ Length \in Nat
  /\ MaxChunk \in Nat \ {0} /\ MaxRead \in Nat \ {0}

VARIABLES
  buffer, buffer_base, buffer_cursor,
  done, failed, content_type,
  pc, target_offset, wanted,   \* the call in progress and its arguments
  result, copied,              \* what the last call returned, and its bytes
  received,                    \* bytes the server has delivered
  high                         \* the furthest the cursor has been

bufferVars == <<buffer, buffer_base, received>>
transferVars == <<done, failed, content_type>>
callVars == <<pc, target_offset, wanted, result, copied>>
sourceVars == <<bufferVars, buffer_cursor, transferVars, callVars, high>>

NoBytes == <<>>

\* url_source_create; the decoder then detects the format.
SourceInit ==
  /\ buffer = <<>> /\ buffer_base = 0 /\ buffer_cursor = 0
  /\ done = FALSE /\ failed = FALSE /\ content_type = "none"
  /\ pc = "detect" /\ target_offset = SignatureBytes /\ wanted = 0
  /\ result = "none" /\ copied = NoBytes /\ received = 0 /\ high = 0

buffer_end == buffer_base + Len(buffer)

\* discard_consumed, for a cursor: how many bytes it takes from the front.
Discard(cursor) ==
  LET keep_from == IF cursor > RewindBytes THEN cursor - RewindBytes ELSE 0
  IN  IF cursor > buffer_base /\ keep_from > buffer_base
        THEN keep_from - buffer_base ELSE 0

\* The failure of discard_consumed.
Overdrawn(cursor) == Discard(cursor) > Len(buffer)

Interval(first, count) == [i \in 1 .. count |-> first + i - 1]

-----------------------------------------------------------------------------
(* The transfer, seen from url_source_progress: one callback or outcome.   *)

\* Who waits goes on waiting: detect needs the type or the signature, a read
\* or seek its target, an MP3 read a single byte.
Waiting ==
  /\ ~done /\ ~failed
  /\ CASE pc = "detect" -> content_type = "none" /\ buffer_end < target_offset
       [] pc \in {"read", "seek"} -> buffer_end < target_offset
       [] pc = "mp3_read" -> buffer_cursor >= buffer_end
       [] OTHER -> FALSE

\* url_write, once for all the chunks of one perform (its discard depends only
\* on the cursor, which does not move meanwhile).
UrlWrite(count) ==
  LET discard == Discard(buffer_cursor)
  IN  /\ buffer' = SubSeq(buffer, discard + 1, Len(buffer)) \o Interval(received, count)
      /\ buffer_base' = buffer_base + discard
      /\ received' = received + count

\* url_header, before the body.  A redirect may replace the type, but only what
\* the headers leave when detect_format looks matters.
UrlHeader ==
  \/ UNCHANGED content_type
  \/ received = 0 /\ content_type = "none" /\ content_type' = "known"

\* No message yet, or CURLMSG_DONE: all bytes came, or the transfer failed or
\* had an HTTP status of 400 or more.
CollectDone ==
  \/ UNCHANGED <<done, failed>>
  \/ received' = Length /\ done' = TRUE /\ UNCHANGED failed
  \/ done' = TRUE /\ failed' = TRUE

\* One round of url_source_progress: callbacks, then the transfer's message.
Progress ==
  /\ ~done
  /\ UrlHeader
  /\ \/ UNCHANGED bufferVars
     \/ \E count \in 1 .. Min({MaxChunk, Length - received}) :
          ~Overdrawn(buffer_cursor) /\ UrlWrite(count)
  /\ CollectDone

\* perform or poll fails, the buffer cannot grow or the discard is too large.
ProgressFails == failed' = TRUE /\ UNCHANGED <<bufferVars, done, content_type>>

Transfer ==
  /\ Waiting
  /\ Progress
  /\ UNCHANGED <<buffer_cursor, callVars, high>>

Fault ==
  /\ Waiting
  /\ ProgressFails
  /\ UNCHANGED <<buffer_cursor, callVars, high>>

-----------------------------------------------------------------------------
(* detect_format, url_read and url_seek: the call, and its end when the    *)
(* transfer has gone far enough.                                           *)

Return(answer) ==
  /\ pc' = "idle"
  /\ result' = answer /\ copied' = NoBytes
  /\ UNCHANGED <<target_offset, wanted>>

\* A read gives its bytes.
Give(bytes) ==
  /\ pc' = "idle"
  /\ result' = "bytes" /\ copied' = bytes
  /\ UNCHANGED <<target_offset, wanted>>

\* The open failed: the source is destroyed.
Close(answer) ==
  /\ pc' = "closed"
  /\ result' = answer /\ copied' = NoBytes
  /\ UNCHANGED <<target_offset, wanted>>

\* The cursor moves forward within the window, which follows it (so the
\* discard is never too large here).
MoveTo(cursor) ==
  LET discard == Discard(cursor)
  IN  /\ buffer_cursor' = cursor
      /\ high' = Max({high, cursor})
      /\ buffer' = SubSeq(buffer, discard + 1, Len(buffer))
      /\ buffer_base' = buffer_base + discard
      /\ UNCHANGED received

Stay == UNCHANGED <<bufferVars, buffer_cursor, high>>

DetectDone ==
  /\ pc = "detect"
  /\ ~Waiting
  /\ IF failed THEN Close("ERR_IO") ELSE Return("OK")
  /\ Stay
  /\ UNCHANGED transferVars

UrlRead(count) ==
  /\ pc = "idle"
  /\ pc' = "read"
  /\ wanted' = count
  /\ target_offset' = buffer_cursor + count
  /\ UNCHANGED <<result, copied, transferVars>>
  /\ Stay

\* memcpy from the window.
Copied(count) ==
  SubSeq(buffer, buffer_cursor - buffer_base + 1, buffer_cursor - buffer_base + count)

\* The copy that ends url_read and drmp3_url_read.
TakeBytes(count) ==
  IF buffer_cursor < buffer_base \/ buffer_cursor >= buffer_end
    THEN Give(NoBytes) /\ Stay
    ELSE LET to_copy == Min({count, buffer_end - buffer_cursor})
         IN  Give(Copied(to_copy)) /\ MoveTo(buffer_cursor + to_copy)

\* Mutated form: a read takes what is there and does not wait for the rest.
ReadDone_Early ==
  /\ pc = "read"
  /\ IF failed THEN Give(NoBytes) /\ Stay ELSE TakeBytes(wanted)
  /\ UNCHANGED transferVars

ReadDone ==
  /\ pc = "read"
  /\ ~Waiting
  /\ IF failed THEN Give(NoBytes) /\ Stay ELSE TakeBytes(wanted)
  /\ UNCHANGED transferVars

\* Any origin and offset that give a target of zero or more.
UrlSeek(offset) ==
  /\ pc = "idle"
  /\ pc' = "seek"
  /\ target_offset' = offset
  /\ UNCHANGED <<wanted, result, copied, transferVars>>
  /\ Stay

SeekDone ==
  /\ pc = "seek"
  /\ ~Waiting
  /\ IF failed \/ target_offset < buffer_base \/ target_offset > buffer_end
       THEN Return("ERR_IO") /\ Stay
       ELSE /\ Return("OK")
            /\ buffer_cursor' = target_offset
            /\ high' = Max({high, target_offset})
            /\ UNCHANGED bufferVars
  /\ UNCHANGED transferVars

-----------------------------------------------------------------------------

SourceStep == DetectDone \/ ReadDone \/ SeekDone

SourceNext ==
  \/ \E count \in 1 .. MaxRead : UrlRead(count)
  \/ \E offset \in 0 .. Length + 1 : UrlSeek(offset)
  \/ SourceStep
  \/ Transfer
  \/ Fault

SourceSpec == SourceInit /\ [][SourceNext]_sourceVars

\* A call that can end does, and a transfer that is waited for moves on: the
\* low-speed limit set in url_source_create fails one that does not.
SourceFairSpec ==
  SourceSpec /\ WF_sourceVars(SourceStep) /\ WF_sourceVars(Transfer)

-----------------------------------------------------------------------------
(* Properties.                                                             *)

SourceTypeOK ==
  /\ buffer \in Seq(0 .. Length)
  /\ buffer_base \in 0 .. Length /\ buffer_cursor \in 0 .. Length
  /\ received \in 0 .. Length /\ high \in 0 .. Length
  /\ done \in BOOLEAN /\ failed \in BOOLEAN /\ content_type \in {"none", "known"}
  /\ pc \in {"detect", "idle", "read", "seek", "closed"}
  /\ target_offset \in 0 .. Length + Max({MaxRead, SignatureBytes, 1})
  /\ wanted \in 0 .. MaxRead /\ copied \in Seq(0 .. Length)

\* The buffer is the received part of the response from buffer_base on, and the
\* cursor is in it, after any order of reads, seeks and discards: every byte
\* read is the one at the cursor (url_write, discard_consumed).
WindowExact ==
  /\ buffer = Interval(buffer_base, received - buffer_base)
  /\ buffer_base <= buffer_cursor /\ buffer_cursor <= received

\* The last RewindBytes before the furthest point read are always kept, so a
\* seek back by that much cannot fail (discard_consumed).
RewindKept == buffer_base <= IF high > RewindBytes THEN high - RewindBytes ELSE 0

\* A read gives bytes the cursor passes, and less than asked for only at the end
\* of the response or after a failure (url_read).
ReadExact ==
  pc = "read" /\ pc' = "idle" =>
    /\ copied' = Interval(buffer_cursor, buffer_cursor' - buffer_cursor)
    /\ Len(copied') < wanted => done \/ failed
ReadsExact == [][ReadExact]_sourceVars

\* Every call returns, whatever the transfer does (the loops of detect_format
\* and download_until).
CallsReturn == pc \in {"detect", "read", "seek"} ~> pc \in {"idle", "closed"}

-----------------------------------------------------------------------------
(* The MP3 decoder.                                                        *)

CONSTANTS
  TagBytes,      \* size of the ID3v2 tag, header included; 0 for none
  TagMark,       \* bytes that show a tag (3)
  TagHeader,     \* bytes that give its size (10)
  FrameBytes,
  FramePcm,      \* PCM units of one decoded frame
  Mp3Chunk       \* CPKT_AUDIO_MP3_BYTE_CHUNK

UrlMp3Assumption ==
  /\ TagMark <= TagHeader
  /\ (TagBytes = 0 \/ TagBytes >= TagHeader)
  /\ FrameBytes \in Nat \ {0, 1} /\ FramePcm \in Nat \ {0} /\ Mp3Chunk \in Nat \ {0}

VARIABLES
  mp3_bytes,
  mp3_input,    \* PCM units decoded and not converted yet
  mp3_eof,
  opened,       \* open_url has returned the decoder
  decoded,      \* the frames decoded so far
  passed,       \* frames of which the decoder has passed over bytes
  lost          \* a chunk was dropped because mp3_bytes could not grow

mp3Vars == <<mp3_bytes, mp3_input, mp3_eof, opened, decoded, passed, lost>>
vars == <<sourceVars, mp3Vars>>

\* The number of whole frames of the response.
Frames == (Length - TagBytes) \div FrameBytes

FrameOf(byte) == (byte - TagBytes) \div FrameBytes
IsSync(byte) == byte >= TagBytes /\ (byte - TagBytes) % FrameBytes = 0

Mp3Init ==
  /\ SourceInit
  /\ mp3_bytes = <<>> /\ mp3_input = 0 /\ mp3_eof = FALSE
  /\ opened = FALSE /\ decoded = <<>> /\ passed = {} /\ lost = FALSE

-----------------------------------------------------------------------------
(* decode_next_frame.                                                      *)

\* skip_id3v2 on a well-formed tag: is there one, and is more of it needed?
TagSeen == TagBytes > 0 /\ Len(mp3_bytes) >= TagMark /\ mp3_bytes[1] = 0
TagIncomplete ==
  TagSeen /\ (Len(mp3_bytes) < TagHeader \/ Len(mp3_bytes) < TagBytes)

AfterTag == IF TagSeen THEN SubSeq(mp3_bytes, TagBytes + 1, Len(mp3_bytes)) ELSE mp3_bytes

\* skip_to_sync: a sync is two bytes, so the last byte is kept.
SkipToSync(bytes) ==
  LET sync == { i \in 1 .. Len(bytes) - 1 : IsSync(bytes[i]) }
  IN  IF Len(bytes) < 2 THEN bytes
      ELSE SubSeq(bytes, IF sync = {} THEN Len(bytes) ELSE Min(sync), Len(bytes))

\* A whole frame is at the front.
FrameAtFront(bytes) == Len(bytes) >= FrameBytes /\ IsSync(bytes[1])

\* What a result of decode_next_frame does to its caller, open_url or the loop
\* of read_f32_mono_16k.
Decoded(answer) ==
  CASE ~opened /\ answer # "OK" -> Close(answer) /\ UNCHANGED <<opened, mp3_eof>>
    [] ~opened /\ answer = "OK" -> Return("OK") /\ opened' = TRUE /\ UNCHANGED mp3_eof
    [] opened /\ answer \notin {"OK", "AT_END"} -> Return(answer) /\ UNCHANGED <<opened, mp3_eof>>
    [] OTHER -> /\ pc' = "convert" /\ mp3_eof' = (answer = "AT_END")
                /\ UNCHANGED <<target_offset, wanted, result, copied, opened>>

\* The outcomes of ma_dr_mp3dec_decode_frame for the bytes at hand.  A frame:
DecodesFrame(bytes) ==
  /\ bytes # <<>> /\ FrameAtFront(bytes)
  /\ mp3_bytes' = SubSeq(bytes, FrameBytes + 1, Len(bytes))
  /\ mp3_input' = FramePcm
  /\ decoded' = Append(decoded, FrameOf(bytes[1]))
  /\ Decoded("OK")
  /\ UNCHANGED passed

ReadsMore ==
  /\ mp3_input' = 0
  /\ pc' = "mp3_read"
  /\ UNCHANGED <<target_offset, wanted, result, copied, mp3_eof, opened, decoded>>

\* frame_bytes > 0 without samples: bytes it finds no frame in, or a frame it
\* cannot decode, are passed over.
PassesOver(bytes) ==
  /\ \E frame_bytes \in 1 .. Len(bytes) :
       /\ mp3_bytes' = SubSeq(bytes, frame_bytes + 1, Len(bytes))
       /\ passed' = passed \cup {FrameOf(bytes[i]) : i \in {k \in 1 .. frame_bytes : bytes[k] >= TagBytes}}
  /\ ReadsMore

\* frame_bytes = 0: the bytes end within a frame.
NeedsMore(bytes) ==
  /\ mp3_bytes' = bytes
  /\ UNCHANGED passed
  /\ IF bytes # <<>> /\ done
       THEN mp3_input' = 0 /\ UNCHANGED decoded /\ Decoded("AT_END")
       ELSE ReadsMore

\* One pass of the loop, up to drmp3_url_read.
Decode ==
  /\ pc = "decode"
  /\ IF TagIncomplete
       THEN ReadsMore /\ UNCHANGED <<mp3_bytes, passed>>
       ELSE LET bytes == SkipToSync(AfterTag)
            IN  \/ DecodesFrame(bytes)
                \/ PassesOver(bytes)
                \/ ~FrameAtFront(bytes) /\ NeedsMore(bytes)
  /\ Stay /\ UNCHANGED <<transferVars, lost>>

\* Mutated form: the chunk replaces the bytes that were left.
Mp3ReadDone_Overwrites ==
  /\ pc = "mp3_read"
  /\ ~Waiting
  /\ UNCHANGED <<transferVars, mp3_input, decoded, passed>>
  /\ IF buffer_cursor < buffer_base \/ buffer_cursor >= buffer_end
       THEN /\ Decoded(IF failed THEN "ERR_IO" ELSE "AT_END")
            /\ Stay
            /\ UNCHANGED <<mp3_bytes, lost>>
       ELSE LET to_copy == Min({Mp3Chunk, buffer_end - buffer_cursor})
            IN  /\ MoveTo(buffer_cursor + to_copy)
                /\ \/ /\ mp3_bytes' = Copied(to_copy)
                      /\ pc' = "decode"
                      /\ UNCHANGED <<target_offset, wanted, result, copied, mp3_eof, opened, lost>>
                   \/ Decoded("ERR_ALLOC") /\ lost' = TRUE /\ UNCHANGED mp3_bytes

\* drmp3_url_read has its bytes, or there are none: the error, the end, or more.
Mp3ReadDone ==
  /\ pc = "mp3_read"
  /\ ~Waiting
  /\ UNCHANGED <<transferVars, mp3_input, decoded, passed>>
  /\ IF buffer_cursor < buffer_base \/ buffer_cursor >= buffer_end
       THEN /\ Decoded(IF failed THEN "ERR_IO" ELSE "AT_END")
            /\ Stay
            /\ UNCHANGED <<mp3_bytes, lost>>
       ELSE LET to_copy == Min({Mp3Chunk, buffer_end - buffer_cursor})
            IN  /\ MoveTo(buffer_cursor + to_copy)
                /\ \/ /\ mp3_bytes' = mp3_bytes \o Copied(to_copy)
                      /\ pc' = "decode"
                      /\ UNCHANGED <<target_offset, wanted, result, copied, mp3_eof, opened, lost>>
                   \/ Decoded("ERR_ALLOC") /\ lost' = TRUE /\ UNCHANGED mp3_bytes

-----------------------------------------------------------------------------
(* open_url and read_f32_mono_16k.                                         *)

\* The format is MP3: open_url decodes a first frame.
OpenMp3 ==
  /\ pc = "detect"
  /\ ~Waiting
  /\ IF failed
       THEN Close("ERR_IO")
       ELSE pc' = "decode" /\ UNCHANGED <<target_offset, wanted, result, copied>>
  /\ Stay /\ UNCHANGED <<transferVars, mp3Vars>>

ReadF32 ==
  /\ pc = "idle"
  /\ pc' = IF mp3_input = 0 /\ ~mp3_eof THEN "decode" ELSE "convert"
  /\ UNCHANGED <<target_offset, wanted, result, copied, transferVars, mp3Vars>>
  /\ Stay

\* The data converter takes some input and gives some output, or none yet: then
\* the loop goes on.
Convert ==
  /\ pc = "convert"
  /\ UNCHANGED <<mp3_bytes, mp3_eof, opened, decoded, passed, lost, transferVars>>
  /\ Stay
  /\ \/ /\ mp3_input = 0
        /\ Return(IF mp3_eof THEN "AT_END" ELSE "OK")
        /\ UNCHANGED mp3_input
     \/ /\ mp3_input > 0
        /\ \E taken \in 1 .. mp3_input : mp3_input' = mp3_input - taken
        /\ \/ \E answer \in {"OK", "ERR_UPSTREAM"} : Return(answer)
           \/ /\ pc' = IF mp3_input' = 0 /\ ~mp3_eof THEN "decode" ELSE "convert"
              /\ UNCHANGED <<target_offset, wanted, result, copied>>

-----------------------------------------------------------------------------

Mp3Step == OpenMp3 \/ Decode \/ Mp3ReadDone \/ Convert

Mp3Next ==
  \/ ReadF32
  \/ Mp3Step
  \/ Transfer /\ UNCHANGED mp3Vars
  \/ Fault /\ UNCHANGED mp3Vars

Mp3Spec == Mp3Init /\ [][Mp3Next]_vars

Mp3FairSpec ==
  Mp3Spec /\ WF_vars(Mp3Step) /\ WF_vars(Transfer /\ UNCHANGED mp3Vars)

-----------------------------------------------------------------------------
(* Properties.                                                             *)

Mp3TypeOK ==
  /\ mp3_bytes \in Seq(0 .. Length) /\ mp3_input \in 0 .. FramePcm
  /\ mp3_eof \in BOOLEAN /\ opened \in BOOLEAN /\ lost \in BOOLEAN
  /\ decoded \in Seq(0 .. Frames) /\ passed \subseteq 0 .. Frames
  /\ pc \in {"detect", "idle", "decode", "mp3_read", "convert", "closed"}

\* The frames are decoded in order and none twice, and every byte taken from the
\* source is in the skipped front of the response, in a decoded frame, in one
\* the decoder itself passed over or still in mp3_bytes: the buffer between the
\* source and the decoder loses no frame, however the response is cut into
\* chunks and wherever the tag ends (skip_id3v2, skip_to_sync, buffer_compact),
\* unless memory ran out.
FramesInOrder == ~lost =>
  LET consumed == buffer_cursor - Len(mp3_bytes)
  IN  /\ \A i \in 1 .. Len(decoded) - 1 : decoded[i] < decoded[i + 1]
      /\ mp3_bytes = Interval(consumed, Len(mp3_bytes))
      /\ \A n \in 0 .. Frames :
           TagBytes + n * FrameBytes < consumed => n \in Range(decoded) \cup passed
      /\ \A n \in Range(decoded) : TagBytes + (n + 1) * FrameBytes <= consumed

\* CPKT_AUDIO_AT_END means that no frame of a complete response is left.
AtEndIsLast ==
  opened /\ mp3_eof /\ ~failed /\ ~lost => 0 .. Frames - 1 \subseteq Range(decoded) \cup passed

\* A transfer that failed is not reported as the end of the audio.
FailureIsNotEnd == [][~mp3_eof /\ mp3_eof' /\ opened => ~failed]_vars

=============================================================================

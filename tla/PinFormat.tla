----------------------------- MODULE PinFormat -----------------------------
(***************************************************************************)
(* The media type of the output pin (ccampin.cpp), on CBasePin's connection*)
(* procedure (amfilter.cpp).  One member, m_mt, serves as the type agreed  *)
(* on, the type an application asked for with SetFormat and the scratch    *)
(* buffer of GetStreamCaps and put_Settings.                               *)
(*                                                                         *)
(* Connect holds the filter's lock from its first attempt to its last, and *)
(* every other method takes that lock, except the first part of            *)
(* put_Settings.  Disconnect and Connect need a stopped filter, which is   *)
(* left to module SourceStream: here they may happen at any time.          *)
(***************************************************************************)
EXTENDS Integers, FiniteSets

CONSTANTS
    Sizes,      \* picture sizes, both sides positive
    Frames,     \* frame lengths
    Foreign,    \* types that downstream or an application propose
    MaxPuts     \* bound on put_Settings calls under way

NoSize  == "nosize"     \* a side is zero or negative
NoFrame == 0            \* AvgTimePerFrame not given

Kinds    == {"rgb32", "rgb24", "rgb16", "bitfields16", "pal8"}  \* depth and compression
Subtypes == {"RGB32", "RGB24", "RGB555", "RGB565", "RGB8", "null"}

\* The part of AM_MEDIA_TYPE that the code looks at.  "video": the major type
\* is video or any and the sample size is fixed.  "kind" is the header's depth,
\* "none" as format type stands for a type without a format block.
MediaType == [video : BOOLEAN, subtype : Subtypes, kind : Kinds,
              size : Sizes \cup {NoSize}, frame : Frames \cup {NoFrame},
              format : {"VideoInfo", "other", "none"}]

ASSUME PinFormatAssumption ==
    /\ NoSize \notin Sizes /\ Sizes # {}
    /\ Frames \subseteq Nat \ {0} /\ Frames # {}
    /\ Foreign \subseteq MediaType
    /\ MaxPuts \in Nat

VARIABLES
    m_mt,                   \* the pin's media type
    m_bFormatAlreadySet,    \* SetFormat fixed it
    m_Connected,            \* the pin is connected
    m_rtFrameLength,        \* frame length in use
    m_iFps,                 \* frame length asked for by put_Settings
    capture,                \* m_iCaptureWidth, m_iCaptureHeight
    m_rScreen,              \* size of that rectangle
    connecting,             \* where Connect is
    m_Position,             \* the enumerator of our own types
    puts,                   \* put_Settings calls before their GetMediaType
    constructed,            \* history: put_Settings in the constructor went through
    agreed,                 \* history: the type of the connection, if any
    written                 \* history: what was written since then: "settings", by put_Settings,
                            \* "wrap", where its sum wrapped round, and "type", m_mt

settings == << m_iFps, capture, puts, constructed >>
vars == << m_mt, m_bFormatAlreadySet, m_Connected, m_rtFrameLength, m_iFps, capture,
           m_rScreen, connecting, m_Position, puts, constructed, agreed, written >>

Proper(size) == size \in Sizes

TypeOK ==
    /\ m_mt \in MediaType
    /\ m_bFormatAlreadySet \in BOOLEAN
    /\ m_Connected \in BOOLEAN
    /\ m_rtFrameLength \in Frames
    /\ m_iFps \in Frames
    /\ capture \in Sizes \cup {NoSize}
    /\ m_rScreen \in Sizes \cup {NoSize}
    /\ connecting \in {"no", "given", "theirs", "mine"}
    /\ m_Position \in 0 .. 6
    /\ puts \in 0 .. MaxPuts
    /\ constructed \in BOOLEAN
    /\ agreed \in MediaType
    /\ written \subseteq {"settings", "wrap", "type"}

\* Of interest while the pin is connected.
Written(what) == written' = IF m_Connected THEN written \cup what ELSE {}

\* A type fixed by SetFormat is not overwritten.
Retyped == Written(IF m_bFormatAlreadySet THEN {} ELSE {"type"})

-----------------------------------------------------------------------------
(* The types the pin offers and accepts. *)

KindAt(i) == << "rgb32", "rgb32", "rgb24", "rgb16", "bitfields16", "pal8" >>[i + 1]

BitmapSubtype(kind) ==
    [rgb32 |-> "RGB32", rgb24 |-> "RGB24", rgb16 |-> "RGB555",
     bitfields16 |-> "RGB555", pal8 |-> "RGB8"][kind]

\* What GetMediaType(i, pmt) makes of *pmt: everything but a subtype that is
\* there already.
Fill(i, mt) ==
    [video |-> TRUE,
     subtype |-> IF mt.subtype = "null" THEN BitmapSubtype(KindAt(i)) ELSE mt.subtype,
     kind |-> KindAt(i), size |-> capture, frame |-> m_rtFrameLength,
     format |-> "VideoInfo"]

Blank == [video |-> TRUE, subtype |-> "null", kind |-> "pal8", size |-> NoSize,
          frame |-> NoFrame, format |-> "none"]

\* GetMediaType answers S_OK (it also succeeds above 5, without a type).
HasType(i) == IF m_bFormatAlreadySet THEN i = 0 ELSE i \in 0 .. 5
Offered(i, mt) == IF m_bFormatAlreadySet THEN m_mt ELSE Fill(i, mt)

AcceptedSubtypes == {"RGB32", "RGB24", "RGB565", "RGB555"}

CheckMediaType(t) ==
    /\ t.video
    /\ t.format # "none"
    /\ t.subtype \in AcceptedSubtypes
    /\ IF m_bFormatAlreadySet THEN t = m_mt ELSE Proper(t.size)

-----------------------------------------------------------------------------
(* Settings. *)

\* put_Settings up to its last line runs without the lock.  The desktop branch
\* sets the whole rectangle, which is empty where the sum of a corner and a side
\* wraps round at 2^32; the window branch moves its top left corner to the origin
\* and leaves the other corner, so that the rectangle grows, unless its corner was
\* never set; a window that is gone ends the call.
put_Settings ==
    /\ puts < MaxPuts
    /\ m_iFps' \in Frames
    /\ m_rtFrameLength' = m_iFps'
    /\ \/ /\ capture' \in Sizes \cup {NoSize}
          /\ m_rScreen' = capture'
          /\ Written({"settings"} \cup IF Proper(capture') THEN {} ELSE {"wrap"})
          /\ puts' = puts + 1
       \/ /\ capture' \in Sizes \cup {NoSize}
          /\ m_rScreen' \in Sizes \cup {NoSize}
          /\ constructed /\ Proper(m_rScreen) => Proper(m_rScreen')
          /\ Written({"settings"})
          /\ puts' = puts + 1
       \/ Written({"settings"}) /\ UNCHANGED << capture, m_rScreen, puts >>
    /\ UNCHANGED << m_mt, m_bFormatAlreadySet, m_Connected, connecting, m_Position,
                    constructed, agreed >>

\* Its last line, GetMediaType(0, &m_mt), takes the lock.
FinishPutSettings ==
    /\ connecting = "no"
    /\ puts > 0
    /\ puts' = puts - 1
    /\ m_mt' = Offered(0, m_mt) /\ Retyped
    /\ UNCHANGED << m_bFormatAlreadySet, m_Connected, m_rtFrameLength, m_iFps, capture,
                    m_rScreen, connecting, m_Position, constructed, agreed >>

-----------------------------------------------------------------------------
(* IAMStreamConfig. *)

GetStreamCaps_IgnoresSet(i) ==  \* mutated form: the format set is overwritten
    /\ connecting = "no"
    /\ m_mt' = IF i \in 0 .. 5 THEN Fill(i, m_mt) ELSE m_mt
    /\ Retyped
    /\ UNCHANGED << m_bFormatAlreadySet, m_Connected, m_rtFrameLength, settings,
                    m_rScreen, connecting, m_Position, agreed >>

GetStreamCaps(i) ==
    /\ connecting = "no"
    /\ m_mt' = IF HasType(i) THEN Offered(i, m_mt) ELSE m_mt
    /\ Retyped
    /\ UNCHANGED << m_bFormatAlreadySet, m_Connected, m_rtFrameLength, settings,
                    m_rScreen, connecting, m_Position, agreed >>

SetFormat_Unchecked(pmt) ==     \* mutated form: the type is not checked
    /\ connecting = "no"
    /\ pmt.format = "VideoInfo"
    /\ pmt.size = capture
    /\ m_mt' = pmt /\ Retyped
    /\ m_bFormatAlreadySet' = TRUE
    /\ UNCHANGED << m_Connected, m_rtFrameLength, settings, m_rScreen, connecting,
                    m_Position, agreed >>

\* A connected pin asks the graph to reconnect it, which the graph does later
\* (Disconnect and Connect) or refuses.
SetFormat(pmt) ==
    /\ connecting = "no"
    /\ pmt.format = "VideoInfo"
    /\ CheckMediaType(pmt)
    /\ pmt.size = capture
    /\ m_mt' = pmt /\ Retyped
    /\ \/ m_bFormatAlreadySet' = TRUE
       \/ m_Connected /\ UNCHANGED m_bFormatAlreadySet
    /\ UNCHANGED << m_Connected, m_rtFrameLength, settings, m_rScreen, connecting,
                    m_Position, agreed >>

\* SetFormat(NULL).
ResetFormat ==
    /\ connecting = "no"
    /\ \/ m_bFormatAlreadySet' = FALSE
       \/ m_Connected /\ UNCHANGED m_bFormatAlreadySet
    /\ UNCHANGED << m_mt, m_Connected, m_rtFrameLength, settings, m_rScreen, connecting,
                    m_Position, agreed, written >>

-----------------------------------------------------------------------------
(* Connecting: one fully specified type, or downstream's types and then ours. *)

BitCount(kind) ==
    [rgb32 |-> 32, rgb24 |-> 24, rgb16 |-> 16, bitfields16 |-> 16, pal8 |-> 8][kind]

DepthSupported(t) == BitCount(t.kind) \in {16, 24, 32}

SetMediaType_KeepLength(t) ==   \* mutated form: what an attempt before left is not replaced
    /\ m_mt' = t
    /\ m_rtFrameLength' = m_rtFrameLength
    /\ m_rScreen' = t.size

SetMediaType_KeepRect(t) ==     \* mutated form: the rectangle is left alone
    /\ m_mt' = t
    /\ m_rtFrameLength' = IF t.frame = NoFrame THEN m_rtFrameLength ELSE t.frame
    /\ UNCHANGED m_rScreen

\* Also when the depth is refused in the end.
SetMediaType(t) ==
    /\ m_mt' = t
    /\ m_rtFrameLength' = IF t.frame = NoFrame THEN m_rtFrameLength ELSE t.frame
    /\ m_rScreen' = t.size

\* DecideBufferSize asserts a proper size.
SizeUsable(t) == Proper(t.size)

BeginConnect ==
    /\ connecting = "no" /\ ~m_Connected
    /\ connecting' \in {"given", "theirs"}
    /\ UNCHANGED << m_mt, m_bFormatAlreadySet, m_Connected, m_rtFrameLength, settings,
                    m_rScreen, m_Position, agreed, written >>

\* AttemptConnection: the type is refused here; or it is set and then refused,
\* here, by downstream or by the allocator; or it is agreed.
Refused(t) ==
    /\ ~CheckMediaType(t)
    /\ UNCHANGED << m_mt, m_rtFrameLength, m_rScreen, m_Connected, agreed, written >>

TriedInVain(t) ==
    /\ CheckMediaType(t)
    /\ SetMediaType(t)
    /\ UNCHANGED << m_Connected, agreed, written >>

Agreed(t) ==
    /\ CheckMediaType(t)
    /\ DepthSupported(t)
    /\ SizeUsable(t)
    /\ SetMediaType(t)
    /\ m_Connected' = TRUE
    /\ agreed' = t /\ written' = {}

TryGiven ==
    /\ connecting = "given"
    /\ \E t \in Foreign : Refused(t) \/ TriedInVain(t) \/ Agreed(t)
    /\ connecting' = "no"
    /\ UNCHANGED << m_bFormatAlreadySet, settings, m_Position >>

TryTheirs ==
    /\ connecting = "theirs"
    /\ \E t \in Foreign :
          \/ (Refused(t) \/ TriedInVain(t)) /\ UNCHANGED connecting
          \/ Agreed(t) /\ connecting' = "no"
    /\ UNCHANGED << m_bFormatAlreadySet, settings, m_Position >>

NoMoreOfTheirs ==
    /\ connecting = "theirs"
    /\ connecting' = "mine"
    /\ UNCHANGED << m_mt, m_bFormatAlreadySet, m_Connected, m_rtFrameLength, settings,
                    m_rScreen, m_Position, agreed, written >>

\* The next of our own types, skipped if it does not match a partial type.
TryMine ==
    /\ connecting = "mine"
    /\ HasType(m_Position)
    /\ \E t \in {Offered(m_Position, Blank)} :
          \/ (Refused(t) \/ TriedInVain(t)) /\ UNCHANGED connecting
          \/ UNCHANGED << m_mt, m_rtFrameLength, m_rScreen, m_Connected, agreed, written,
                        connecting >>
          \/ Agreed(t) /\ connecting' = "no"
    /\ m_Position' = IF m_Connected' THEN 0 ELSE m_Position + 1
    /\ UNCHANGED << m_bFormatAlreadySet, settings >>

NoMoreOfMine ==
    /\ connecting = "mine"
    /\ ~HasType(m_Position)
    /\ connecting' = "no"
    /\ m_Position' = 0
    /\ UNCHANGED << m_mt, m_bFormatAlreadySet, m_Connected, m_rtFrameLength, settings,
                    m_rScreen, agreed, written >>

\* The type stays in m_mt.
Disconnect ==
    /\ connecting = "no" /\ m_Connected
    /\ m_Connected' = FALSE
    /\ agreed' = Blank /\ written' = {}
    /\ UNCHANGED << m_mt, m_bFormatAlreadySet, m_rtFrameLength, settings, m_rScreen,
                    connecting, m_Position >>

-----------------------------------------------------------------------------
\* The constructor calls put_Settings, which may fail half way; rectangle and
\* size are then not initialized.
Init ==
    /\ m_iFps \in Frames
    /\ m_rtFrameLength = m_iFps
    /\ capture \in Sizes \cup {NoSize}
    /\ m_rScreen \in Sizes \cup {NoSize}
    /\ m_bFormatAlreadySet = FALSE
    /\ constructed \in BOOLEAN
    /\ m_mt = IF constructed THEN Fill(0, Blank) ELSE Blank
    /\ m_Connected = FALSE
    /\ connecting = "no"
    /\ m_Position = 0
    /\ puts = 0
    /\ agreed = Blank /\ written = {}

Next ==
    \/ put_Settings \/ FinishPutSettings
    \/ \E i \in 0 .. 6 : GetStreamCaps(i)
    \/ \E t \in Foreign \cup {m_mt} : SetFormat(t)
    \/ ResetFormat
    \/ BeginConnect \/ TryGiven \/ TryTheirs \/ NoMoreOfTheirs
    \/ TryMine \/ NoMoreOfMine
    \/ Disconnect

Spec == Init /\ [][Next]_vars

-----------------------------------------------------------------------------
(* Properties. *)

\* Whatever happened before, the pin accepts every type it offers to a
\* connection, the 8-bit one apart, as long as there is something to capture.
\* Once SetFormat fixed a type, GetMediaType and CheckMediaType both go by m_mt.
OfferedIsAccepted ==
    Proper(capture) =>
        \A i \in 0 .. 4 : HasType(i) => CheckMediaType(Offered(i, Blank))

\* What a connection agreed is what the worker goes by, whatever the attempts that
\* were refused before it left in the same members: its frame length, if it has one,
\* and its size until put_Settings is called, its type until GetStreamCaps,
\* put_Settings or SetFormat write another one to m_mt, which none of them does to a
\* type that SetFormat fixed.
AgreedInForce ==
    m_Connected =>
        /\ "settings" \notin written =>
              /\ m_rScreen = agreed.size
              /\ agreed.frame # NoFrame => m_rtFrameLength = agreed.frame
        /\ "type" \notin written => m_mt = agreed

\* A type fixed by SetFormat stays what it is until SetFormat(NULL), through
\* GetStreamCaps, put_Settings, another SetFormat and failing connections, and
\* every connection made meanwhile uses it.
FormatHonoured ==
    [][m_bFormatAlreadySet /\ m_bFormatAlreadySet' =>
          /\ m_mt' = m_mt
          /\ ~m_Connected /\ m_Connected' => agreed' = m_mt]_vars

\* CopyScreenToDataBlock raises an exception on an empty rectangle ("that would
\* be unexpected"): a connected pin has none, whatever window put_Settings was given,
\* if the constructor's own put_Settings gave the rectangle a corner and no sum of
\* put_Settings has wrapped round since.
RectNotEmpty == m_Connected /\ constructed /\ "wrap" \notin written => Proper(m_rScreen)

\* Without the last condition, as the comment has it.
RectNeverEmpty == m_Connected /\ constructed => Proper(m_rScreen)

\* "Work out the GUID for the subtype from the header info": the type that
\* GetStreamCaps describes has the subtype of its header.
StreamCapsConsistent ==
    [][\A i \in 0 .. 5 :
          GetStreamCaps(i) /\ HasType(i) => m_mt'.subtype = BitmapSubtype(m_mt'.kind)]_vars
=============================================================================

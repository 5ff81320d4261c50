----------------------------- MODULE BaseWindow -----------------------------
(***************************************************************************)
(* CBaseWindow (winutil.cpp): video windows, each owned by the thread that *)
(* created it, and the threads that show them, change their palettes and   *)
(* destroy them.  A message sent to the window of another thread runs      *)
(* there, while the sender waits; a thread that waits so, or in            *)
(* WaitDispatchingMessages (wxutil.cpp), runs what is sent to it meanwhile.*)
(* So each thread has a stack of calls, which hold critical sections:      *)
(* while a call waits for one, its thread runs nothing.                    *)
(* m_hdc and m_MemoryDC come and go with m_hwnd.                           *)
(***************************************************************************)
EXTENDS Integers, SequencesExt

CONSTANTS
    Windows,
    Threads,
    Owner,        \* the thread that creates each window
    Callers,      \* the threads that show each window
    Renderers,    \* the threads that prepare its palette
    Destroyer,    \* the thread that calls DoneWithWindow in the end
    NoSender,
    MaxCalls,     \* bound: calls of the windows' methods
    MaxEvents     \* bound: changes of the palette or the focus by the system

WindowAssumption ==
    /\ Owner \in [Windows -> Threads] /\ Destroyer \in [Windows -> Threads]
    /\ {Callers, Renderers} \subseteq [Windows -> SUBSET Threads]
    /\ NoSender \notin Threads \X Nat /\ MaxCalls \in Nat /\ MaxEvents \in Nat

VARIABLES
    m_bDoPostToDestroy,
    m_hwnd,        \* of each object: has it a window, with its DCs?
    m_hPalette,    \* and a palette?
    m_bActivated,
    window,        \* of the system: the window exists
    visible,
    posted,        \* RealizePalette messages posted to it
    deleted,       \* the object is
    stack,         \* the calls of each thread
    calls, events

objectVars == << m_hwnd, m_hPalette, m_bActivated, deleted >>
systemVars == << window, visible, posted >>
vars == << m_bDoPostToDestroy, objectVars, systemVars, stack, calls, events >>

(***************************************************************************)
(* A call: its function and window, how far it is, the locks it holds, the *)
(* message it waits for, the windows still to be told of a new palette,    *)
(* whether it redraws, and the call whose message it handles.              *)
(***************************************************************************)
Call(fn, w, at) ==
    [fn |-> fn, win |-> w, at |-> at, locks |-> {}, message |-> "none", to |-> w, what |-> "none",
     todo |-> {}, redraw |-> FALSE, from |-> NoSender]

Places == Threads \X Nat

TypeOK ==
    /\ {m_hwnd, m_hPalette, m_bActivated, window, visible, deleted} \subseteq [Windows -> BOOLEAN]
    /\ posted \in [Windows -> 0..MaxEvents]
    /\ \A t \in Threads : \A i \in DOMAIN stack[t] :
          stack[t][i] \in
             [fn : {"create", "realise", "prepare", "show", "done", "destroy"}, win : Windows,
              at : {"create", "lock", "hdc", "broadcast", "memdc", "redraw", "remove", "unset", "make",
                    "window", "set", "sent", "test", "clear", "hide", "uninit", "destroy"},
              locks : SUBSET {"window", "palette"},
              message : {"none", "posted", "pending", "taken", "answered"}, to : Windows,
              what : {"none", "realise", "changed", "show", "hide", "activate", "destroy"},
              todo : SUBSET Windows, redraw : BOOLEAN, from : {NoSender} \cup Places]

\* Some windows are there already, showing pictures with a palette.
Init ==
    /\ m_bDoPostToDestroy \in BOOLEAN
    /\ m_hwnd \in [Windows -> BOOLEAN]
    /\ window = m_hwnd /\ m_hPalette = m_hwnd /\ visible = m_hwnd
    /\ m_bActivated = [w \in Windows |-> FALSE] /\ deleted = [w \in Windows |-> FALSE]
    /\ posted = [w \in Windows |-> 0]
    /\ stack = [t \in Threads |-> << >>]
    /\ calls = 0 /\ events = 0

-----------------------------------------------------------------------------
(* Calls and their locks. *)

Top(t) == Last(stack[t])
Runs(t, at) == stack[t] # << >> /\ Top(t).at = at

Waits(t) == stack[t] # << >> /\ Top(t).message \in {"posted", "pending", "taken"}

\* Locks are recursive.
Free(t, lock, w) ==
    \A u \in Threads \ {t} : \A i \in DOMAIN stack[u] :
       ~(stack[u][i].win = w /\ lock \in stack[u][i].locks)

Push(s, t, call) == [s EXCEPT ![t] = Append(@, call)]
Goto(t, call) == stack' = [stack EXCEPT ![t][Len(stack[t])] = call]

\* A call returns and releases its locks; its sender goes on.
Popped(t) ==
    LET s == [stack EXCEPT ![t] = Front(@)]
        from == Top(t).from
    IN IF from = NoSender THEN s ELSE [s EXCEPT ![from[1]][from[2]].message = "answered"]

Return(t) == stack' = Popped(t)

Sends(call, kind, to, what) == [call EXCEPT !.message = kind, !.to = to, !.what = what]

-----------------------------------------------------------------------------
(* The window procedure. *)

Dispatches_PlainWait(t) ==      \* mutated form: DoneWithWindow just waits
    \/ stack[t] = << >>
    \/ Waits(t) /\ Top(t).what # "destroy"
    \/ \E at \in {"create", "hide", "destroy"} : Runs(t, at)

\* A thread runs what was sent to it when it asks for a message, waits in
\* SendMessage or WaitDispatchingMessages, or creates, hides or destroys.
Dispatches(t) ==
    \/ stack[t] = << >>
    \/ Waits(t)
    \/ \E at \in {"create", "hide", "destroy"} : Runs(t, at)

\* OnPaletteChange, for a new palette of this window or of another one.
MustRealise(w, what, sender) ==
    m_hwnd[w] /\ (what = "realise" \/ sender # w) /\ visible[w]

Handler(w, what, sender) ==
    CASE what = "destroy" /\ m_hwnd[w] -> << Call("destroy", w, "hide") >>
      [] what \in {"realise", "changed"} /\ MustRealise(w, what, sender)
           -> << [Call("realise", w, "lock") EXCEPT !.redraw = (what = "changed")] >>
      [] OTHER -> << >>

\* OnReceiveMessage and WndProc, with the message of the call d of thread u.
Take(t) ==
    /\ \E u \in Threads : \E d \in DOMAIN stack[u] :
          LET m == stack[u][d]
              handler == Handler(m.to, m.what, m.win)
          IN /\ Owner[m.to] = t /\ window[m.to]
             /\ \/ m.message = "pending" /\ Dispatches(t)
                \/ m.message = "posted" /\ stack[t] = << >>
             /\ IF handler = << >>
                THEN stack' = [stack EXCEPT ![u][d].message = "answered"]
                ELSE stack' = Push([stack EXCEPT ![u][d].message = "taken"], t,
                                   [handler[1] EXCEPT !.from = << u, d >>])
             /\ visible' = CASE m.what = "show" -> [visible EXCEPT ![m.to] = TRUE]
                             [] m.what = "hide" -> [visible EXCEPT ![m.to] = FALSE]
                             [] OTHER -> visible
    /\ UNCHANGED << m_bDoPostToDestroy, objectVars, window, posted, calls, events >>

\* SendMessage fails when there is no window (any more).
NobodyThere(t) ==
    /\ Waits(t) /\ Top(t).message = "pending" /\ ~window[Top(t).to]
    /\ Goto(t, [Top(t) EXCEPT !.message = "answered"])
    /\ UNCHANGED << m_bDoPostToDestroy, objectVars, systemVars, calls, events >>

TakePosted(t) ==
    /\ stack[t] = << >>
    /\ \E w \in Windows :
          /\ Owner[w] = t /\ posted[w] > 0
          /\ posted' = [posted EXCEPT ![w] = @ - 1]
          /\ stack' = [stack EXCEPT ![t] = Handler(w, "realise", w)]
    /\ UNCHANGED << m_bDoPostToDestroy, objectVars, window, visible, calls, events >>

\* The window is about to get the focus (WM_QUERYNEWPALETTE).
Focus(w) ==
    /\ events < MaxEvents /\ events' = events + 1
    /\ Dispatches(Owner[w]) /\ Handler(w, "realise", w) # << >>
    /\ stack' = Push(stack, Owner[w], Handler(w, "realise", w)[1])
    /\ UNCHANGED << m_bDoPostToDestroy, objectVars, systemVars, calls >>

-----------------------------------------------------------------------------
(* DoRealisePalette. *)

Realising_Locked == {"palette"}     \* mutated form: the lock is held while realising

\* What DoRealisePalette holds while the system realises the palette.
Realising == {}

\* After a change elsewhere, OnPaletteChange invalidates m_hwnd.
Realised(t) == IF Top(t).redraw THEN Goto(t, [Top(t) EXCEPT !.at = "redraw"]) ELSE Return(t)

SelectPalette(t) ==
    /\ Runs(t, "lock") /\ Free(t, "palette", Top(t).win)
    /\ IF m_hPalette[Top(t).win]
       THEN Goto(t, [Top(t) EXCEPT !.at = "hdc", !.locks = Realising])
       ELSE Realised(t)
    /\ UNCHANGED << m_bDoPostToDestroy, objectVars, systemVars, calls, events >>

\* RealizePalette(m_hdc) may change the system's palette: every window is sent
\* WM_PALETTECHANGED.
RealizePalette(t) ==
    /\ Runs(t, "hdc")
    /\ \/ /\ events < MaxEvents /\ events' = events + 1
          /\ Goto(t, [Top(t) EXCEPT !.at = "broadcast", !.todo = {w \in Windows : window[w]}])
       \/ /\ Goto(t, [Top(t) EXCEPT !.at = "memdc"])
          /\ UNCHANGED events
    /\ UNCHANGED << m_bDoPostToDestroy, objectVars, systemVars, calls >>

Broadcast(t) ==
    /\ Runs(t, "broadcast") /\ ~Waits(t)
    /\ \/ \E w \in Top(t).todo :
             Goto(t, [Sends(Top(t), "pending", w, "changed") EXCEPT !.todo = @ \ {w}])
       \/ Top(t).todo = {} /\ Goto(t, [Top(t) EXCEPT !.at = "memdc", !.message = "none"])
    /\ UNCHANGED << m_bDoPostToDestroy, objectVars, systemVars, calls, events >>

\* RealizePalette(m_MemoryDC) changes nothing on the screen.
RealizeMemory(t) ==
    /\ Runs(t, "memdc") /\ Realised(t)
    /\ UNCHANGED << m_bDoPostToDestroy, objectVars, systemVars, calls, events >>

Redraw(t) ==
    /\ Runs(t, "redraw") /\ Return(t)
    /\ UNCHANGED << m_bDoPostToDestroy, objectVars, systemVars, calls, events >>

-----------------------------------------------------------------------------
(* PreparePalette (CImagePalette): RemovePalette, then SetPalette. *)

RemovePalette(t) ==
    /\ Runs(t, "remove") /\ Free(t, "palette", Top(t).win)
    /\ IF m_hPalette[Top(t).win]
       THEN Goto(t, [Top(t) EXCEPT !.at = "unset", !.locks = {"palette"}])
       ELSE Goto(t, [Top(t) EXCEPT !.at = "make"])
    /\ UNCHANGED << m_bDoPostToDestroy, objectVars, systemVars, calls, events >>

UnsetPalette(t) ==
    /\ Runs(t, "unset") /\ Free(t, "window", Top(t).win)
    /\ m_hPalette' = [m_hPalette EXCEPT ![Top(t).win] = FALSE]
    /\ Goto(t, [Top(t) EXCEPT !.at = "make", !.locks = {}])
    /\ UNCHANGED << m_bDoPostToDestroy, m_hwnd, m_bActivated, deleted, systemVars, calls, events >>

MakePalette(t) ==
    /\ Runs(t, "make") /\ Free(t, "palette", Top(t).win)
    /\ \/ Return(t)       \* the new format has none
       \/ Goto(t, [Top(t) EXCEPT !.at = "window"])
    /\ UNCHANGED << m_bDoPostToDestroy, objectVars, systemVars, calls, events >>

SetPaletteLock(t) ==
    /\ Runs(t, "window") /\ Free(t, "window", Top(t).win)
    /\ Goto(t, [Top(t) EXCEPT !.at = "set", !.locks = {"window"}])
    /\ UNCHANGED << m_bDoPostToDestroy, objectVars, systemVars, calls, events >>

\* The message is sent once both locks are released.
SetPalette(t) ==
    /\ Runs(t, "set") /\ Free(t, "palette", Top(t).win)
    /\ m_hPalette' = [m_hPalette EXCEPT ![Top(t).win] = TRUE]
    /\ Goto(t, [Sends(Top(t), "pending", Top(t).win, "realise") EXCEPT !.at = "sent", !.locks = {}])
    /\ UNCHANGED << m_bDoPostToDestroy, m_hwnd, m_bActivated, deleted, systemVars, calls, events >>

\* The message of SetPalette, put_Visible or ActivateWindow was handled.
Sent(t) ==
    /\ Runs(t, "sent") /\ ~Waits(t) /\ Return(t)
    /\ m_bActivated' = [m_bActivated EXCEPT ![Top(t).win] = @ \/ Top(t).what = "activate"]
    /\ UNCHANGED << m_bDoPostToDestroy, m_hwnd, m_hPalette, deleted, systemVars, calls, events >>

-----------------------------------------------------------------------------
(* Creating and destroying. *)

\* DoCreateWindow: messages arrive before m_hwnd is set.
InitialiseWindow(t) ==
    /\ Runs(t, "create")
    /\ m_hwnd' = [m_hwnd EXCEPT ![Top(t).win] = TRUE]
    /\ Return(t)
    /\ UNCHANGED << m_bDoPostToDestroy, m_hPalette, m_bActivated, deleted, systemVars, calls, events >>

DestroyMessage_Sent == "pending"    \* mutated form: always sends

DestroyMessage == IF m_bDoPostToDestroy THEN "posted" ELSE "pending"

\* DoneWithWindow on another thread than the window's.
TellOwner(t) ==
    /\ Runs(t, "test")
    /\ IF window[Top(t).win] /\ m_hwnd[Top(t).win]
       THEN Goto(t, [Sends(Top(t), DestroyMessage, Top(t).win, "destroy") EXCEPT !.at = "clear"])
       ELSE Goto(t, [Top(t) EXCEPT !.at = "clear"])
    /\ UNCHANGED << m_bDoPostToDestroy, objectVars, systemVars, calls, events >>

\* The destructor that called DoneWithWindow goes on to delete the object.
ClearWindow(t) ==
    /\ Runs(t, "clear") /\ ~Waits(t)
    /\ m_hwnd' = [m_hwnd EXCEPT ![Top(t).win] = FALSE]
    /\ deleted' = [deleted EXCEPT ![Top(t).win] = TRUE]
    /\ Return(t)
    /\ UNCHANGED << m_bDoPostToDestroy, m_hPalette, m_bActivated, systemVars, calls, events >>

\* On the window's thread: InactivateWindow hides it.
InactivateWindow(t) ==
    /\ Runs(t, "hide")
    /\ visible' = [visible EXCEPT ![Top(t).win] = @ /\ ~m_bActivated[Top(t).win]]
    /\ m_bActivated' = [m_bActivated EXCEPT ![Top(t).win] = FALSE]
    /\ Goto(t, [Top(t) EXCEPT !.at = "uninit"])
    /\ UNCHANGED << m_bDoPostToDestroy, m_hwnd, m_hPalette, deleted, window, posted, calls, events >>

UninitialiseWindow(t) ==
    /\ Runs(t, "uninit")
    /\ m_hwnd' = [m_hwnd EXCEPT ![Top(t).win] = FALSE]
    /\ Goto(t, [Top(t) EXCEPT !.at = "destroy"])
    /\ UNCHANGED << m_bDoPostToDestroy, m_hPalette, m_bActivated, deleted, systemVars, calls, events >>

\* DestroyWindow; messages posted to the window go with it.
DestroyWindow(t) ==
    /\ Runs(t, "destroy")
    /\ window' = [window EXCEPT ![Top(t).win] = FALSE]
    /\ visible' = [visible EXCEPT ![Top(t).win] = FALSE]
    /\ posted' = [posted EXCEPT ![Top(t).win] = 0]
    /\ deleted' = [deleted EXCEPT ![Top(t).win] = @ \/ Top(t).from = NoSender]
    /\ Return(t)
    /\ UNCHANGED << m_bDoPostToDestroy, m_hwnd, m_hPalette, m_bActivated, calls, events >>

-----------------------------------------------------------------------------
(* What threads call (external).  Palettes are prepared under the          *)
(* renderer's lock, and an object is destroyed once nobody else is in it   *)
(* but its own window procedure.                                           *)

Inside(t, w) == \E i \in DOMAIN stack[t] : stack[t][i].win = w

Usable(w) == m_hwnd[w] /\ ~deleted[w] /\ \A t \in Threads : \A i \in DOMAIN stack[t] :
                 stack[t][i].win = w => stack[t][i].fn \notin {"done", "destroy"}

Preparing(w) == \E t \in Threads : \E i \in DOMAIN stack[t] :
                   stack[t][i].win = w /\ stack[t][i].fn = "prepare"

Begin(t, call) == calls < MaxCalls /\ calls' = calls + 1 /\ stack[t] = << >> /\ stack' = Push(stack, t, call)

PrepareWindow(w) ==
    /\ ~window[w] /\ ~deleted[w] /\ \A t \in Threads : ~Inside(t, w)
    /\ Begin(Owner[w], Call("create", w, "create"))
    /\ window' = [window EXCEPT ![w] = TRUE]
    /\ UNCHANGED << m_bDoPostToDestroy, objectVars, visible, posted, events >>

PreparePalette(t, w) ==
    /\ Usable(w) /\ ~Preparing(w) /\ Begin(t, Call("prepare", w, "remove"))
    /\ UNCHANGED << m_bDoPostToDestroy, objectVars, systemVars, events >>

\* A derived renderer may call DoRealisePalette on its own thread.
DoRealisePalette(t, w) ==
    /\ Usable(w) /\ Begin(t, Call("realise", w, "lock"))
    /\ UNCHANGED << m_bDoPostToDestroy, objectVars, systemVars, events >>

\* put_Visible shows or hides the window without a lock.
put_Visible(t, w) ==
    /\ Usable(w)
    /\ \E what \in {"show", "hide"} : Begin(t, Sends(Call("show", w, "sent"), "pending", w, what))
    /\ UNCHANGED << m_bDoPostToDestroy, objectVars, systemVars, events >>

\* ActivateWindow moves it, which sends messages too.
ActivateWindow(t, w) ==
    /\ Usable(w)
    /\ Begin(t, Sends(Call("show", w, "sent"), "pending", w, "activate"))
    /\ UNCHANGED << m_bDoPostToDestroy, objectVars, systemVars, events >>

\* It posts, under the window's lock.
put_BackgroundPalette(t, w) ==
    /\ stack[t] = << >> /\ Usable(w) /\ Free(t, "window", w)
    /\ events < MaxEvents /\ events' = events + 1
    /\ posted' = [posted EXCEPT ![w] = @ + 1]
    /\ UNCHANGED << m_bDoPostToDestroy, objectVars, window, visible, stack, calls >>

DoneWithWindow(w) ==
    /\ Usable(w) /\ \A t \in Threads \ {Owner[w]} : ~Inside(t, w)
    /\ \A i \in DOMAIN stack[Owner[w]] : stack[Owner[w]][i].win = w => stack[Owner[w]][i].fn = "realise"
    /\ Begin(Destroyer[w], IF Destroyer[w] = Owner[w] THEN Call("destroy", w, "hide")
                                                      ELSE Call("done", w, "test"))
    /\ UNCHANGED << m_bDoPostToDestroy, objectVars, systemVars, events >>

-----------------------------------------------------------------------------
GoesOn(t) ==
    \/ Take(t) \/ NobodyThere(t) \/ TakePosted(t)
    \/ SelectPalette(t) \/ RealizePalette(t) \/ Broadcast(t) \/ RealizeMemory(t) \/ Redraw(t)
    \/ RemovePalette(t) \/ UnsetPalette(t) \/ MakePalette(t) \/ SetPaletteLock(t) \/ SetPalette(t) \/ Sent(t)
    \/ InitialiseWindow(t) \/ TellOwner(t) \/ ClearWindow(t)
    \/ InactivateWindow(t) \/ UninitialiseWindow(t) \/ DestroyWindow(t)

Calls ==
    \E w \in Windows :
       \/ PrepareWindow(w) \/ Focus(w) \/ DoneWithWindow(w)
       \/ \E t \in Renderers[w] : PreparePalette(t, w) \/ DoRealisePalette(t, w)
       \/ \E t \in Callers[w] : put_Visible(t, w) \/ ActivateWindow(t, w) \/ put_BackgroundPalette(t, w)

Next == Calls \/ \E t \in Threads : GoesOn(t)

Spec == Init /\ [][Next]_vars /\ \A t \in Threads : WF_vars(GoesOn(t))

-----------------------------------------------------------------------------
\* A window that is destroyed by a posted message is destroyed between two
\* messages: no call that uses its DCs or its handle finds them gone, and none
\* is left in an object that is deleted.  (With a sent message, the default of
\* the constructor, both may happen, as DoneWithWindow's comment warns.)
DestroyedBetweenMessages ==
    m_bDoPostToDestroy =>
       \A t \in Threads : stack[t] # << >> =>
          /\ Top(t).at \in {"hdc", "memdc", "redraw", "unset"}
               => m_hwnd[Top(t).win]
          /\ \A w \in Windows : deleted[w] => ~Inside(t, w)

\* Every call returns, though threads send each other messages, wait for each
\* other's locks and are told of every palette: they come to rest, as the calls
\* and events are limited.
AtRest == \A t \in Threads : stack[t] = << >>

CallsReturn == ~AtRest ~> AtRest
=============================================================================

------------------------------ MODULE CAMThread ------------------------------
(***************************************************************************)
(* CAMThread (baseclasses wxutil.h, wxutil.cpp): a worker thread that takes*)
(* one request at a time.  Two events carry the handshake: m_EventSend is  *)
(* manual-reset, so that the worker can look at a request (CheckRequest)   *)
(* without consuming it; m_EventComplete is auto-reset and wakes the       *)
(* caller.  One operator per step; the callers' and the worker's control   *)
(* is in the module that extends this one.                                 *)
(***************************************************************************)
EXTENDS Naturals

VARIABLES
    m_hThread,          \* the thread handle is set
    m_EventSend,        \* a request is posted
    m_EventComplete,    \* a reply is posted
    m_dwParam,          \* the request
    m_dwReturnVal       \* the reply

threadVars == << m_hThread, m_EventSend, m_EventComplete, m_dwParam, m_dwReturnVal >>

Command == {"INIT", "PAUSE", "STOP", "EXIT"}     \* CMD_RUN is never sent
Result  == {"S_OK", "E_UNEXPECTED", "E_NOTIMPL"}

ThreadTypeOK ==
    /\ m_hThread \in BOOLEAN
    /\ m_EventSend \in BOOLEAN
    /\ m_EventComplete \in BOOLEAN
    /\ m_dwParam \in Command
    /\ m_dwReturnVal \in Result

\* m_dwParam and m_dwReturnVal are not initialized: any value.
ThreadInit ==
    /\ m_hThread = FALSE
    /\ m_EventSend = FALSE
    /\ m_EventComplete = FALSE
    /\ m_dwParam \in Command
    /\ m_dwReturnVal \in Result

ThreadExists == m_hThread

Create ==
    /\ ~ThreadExists
    /\ m_hThread' = TRUE
    /\ UNCHANGED << m_EventSend, m_EventComplete, m_dwParam, m_dwReturnVal >>

\* Close takes the handle away before it waits for the thread.
TakeHandle ==
    /\ m_hThread' = FALSE
    /\ UNCHANGED << m_EventSend, m_EventComplete, m_dwParam, m_dwReturnVal >>

-----------------------------------------------------------------------------
(* CallWorker, in the caller: post the request, wait for the reply.        *)

SendRequest(cmd) ==
    /\ m_dwParam' = cmd
    /\ m_EventSend' = TRUE
    /\ UNCHANGED << m_hThread, m_EventComplete, m_dwReturnVal >>

TakeReply_KeepEvent ==          \* mutated form: a manual-reset completion event
    /\ m_EventComplete
    /\ UNCHANGED threadVars

TakeReply ==
    /\ m_EventComplete
    /\ m_EventComplete' = FALSE
    /\ UNCHANGED << m_hThread, m_EventSend, m_dwParam, m_dwReturnVal >>

-----------------------------------------------------------------------------
(* The worker's side.  Reply withdraws the request before it signals the   *)
(* caller, "or the client may Set it before we reset it".                  *)

Requested(cmd) == m_EventSend /\ m_dwParam = cmd

WithdrawRequest(hr) ==
    /\ m_dwReturnVal' = hr
    /\ m_EventSend' = FALSE
    /\ UNCHANGED << m_hThread, m_EventComplete, m_dwParam >>

SignalComplete ==
    /\ m_EventComplete' = TRUE
    /\ UNCHANGED << m_hThread, m_EventSend, m_dwParam, m_dwReturnVal >>
=============================================================================

----------------------------- MODULE HalTables -----------------------------
(***************************************************************************)
(* The life of a session in the HAL, as tables of Routine: init() and      *)
(* release() of tee_test.c around the client_open, tee_init and tee_exit   *)
(* of the five back ends (sample_hal/platform).  A back end has four       *)
(* routines: open (the device structure, the vendor library, its symbols), *)
(* init, exit and close.  A caller may try a failed init again, or close.  *)
(***************************************************************************)
EXTENDS CallTable

\* The head of init() in tee_test.c, and the tail of release().
OpenDevice(clientOpen) ==
  Join(<<Get({"device"}, "pointer", Null, Return)>>, clientOpen)
CloseDevice(lib) == <<PutDropped(lib, "code"), Put({"device"})>>

\* DLSYM: a symbol that is missing makes client_open return.
Symbols == Test(Return)

OpenLib(lib) == <<Get({lib}, "pointer", Null, Return), Symbols>>
qsee_client_open == OpenLib("libQSEEComAPI")
kinibi_client_open == OpenLib("libMcTrusty")
trusty_client_open == OpenLib("libtrusty")
gp_client_open == OpenLib("libGP")
isee_client_open == <<>>                       \* no library

qsee_init == <<Get({"qsee_app"}, "code", NonZero, Return)>>
qsee_exit == <<PutDropped({"qsee_app"}, "negcode")>>

isee_init == <<Get({"isee_fd"}, "handle", Neg, Return)>>
isee_exit == <<PutDropped({"isee_fd"}, "negcode")>>

trusty_init == <<Get({"tipc"}, "handle", Neg, Return)>>
trusty_exit == <<PutDropped({"tipc"}, "negcode")>>

\* Mutation: the exchange buffer is freed in place of the file's.
kinibi_init_frees_tci ==
  <<Get({"mc_device"}, "code", NonZero, Return),
    Get({"ta_fd"}, "handle", Neg, Return), Call("handle", Neg, Return),
    Get({"ta_buf", "g_mem"}, "pointer", Null, Return),
    Call("count", NotFull, Return), Get({"mc_session"}, "code", NonZero, Return),
    Put({"g_mem"})>>

\* Mutation: a short read of the binary goes unnoticed.
kinibi_init_unchecked ==
  <<Get({"mc_device"}, "code", NonZero, Return),
    Get({"ta_fd"}, "handle", Neg, Return), Call("handle", Neg, Return),
    Get({"ta_buf", "g_mem"}, "pointer", Null, Return), Call("count", {}, Fall),
    Get({"mc_session"}, "code", NonZero, Return), Put({"ta_buf"})>>

\* mcOpenDevice, open, lseek, two mallocs under one test, read, mcOpenTrustlet,
\* free(ta_buf).
kinibi_init ==
  <<Get({"mc_device"}, "code", NonZero, Return),
    Get({"ta_fd"}, "handle", Neg, Return),
    Call("handle", Neg, Return),
    Get({"ta_buf", "g_mem"}, "pointer", Null, Return),
    Call("count", NotFull, Return),
    Get({"mc_session"}, "code", NonZero, Return),
    Put({"ta_buf"})>>

\* Mutation: the device is closed with its session still open.
kinibi_exit_swapped ==
  <<Put({"g_mem"}), PutDropped({"mc_device"}, "code"),
    PutDropped({"mc_session"}, "code")>>

kinibi_exit ==
  <<Put({"g_mem"}), PutDropped({"mc_session"}, "code"),
    PutDropped({"mc_device"}, "code")>>

gp_init ==
  <<Get({"context"}, "code", NonZero, Return),
    Get({"session"}, "code", NonZero, Return),
    Get({"in_mem"}, "code", NonZero, Return),
    Get({"out_mem"}, "code", NonZero, Return)>>

gp_exit ==
  <<Put({"in_mem"}), Put({"out_mem"}), Put({"session"}), Put({"context"})>>

---------------------------------------------------------------------------
\* The five back ends of tee_open[], and what each holds once it is open and
\* once it is initialised.
HalCode ==
  [qsee_open |-> OpenDevice(qsee_client_open),
   isee_open |-> OpenDevice(isee_client_open),
   kinibi_open |-> OpenDevice(kinibi_client_open),
   trusty_open |-> OpenDevice(trusty_client_open),
   gp_open |-> OpenDevice(gp_client_open),
   qsee_init |-> qsee_init, qsee_exit |-> qsee_exit,
   isee_init |-> isee_init, isee_exit |-> isee_exit,
   kinibi_init |-> kinibi_init, kinibi_exit |-> kinibi_exit,
   trusty_init |-> trusty_init, trusty_exit |-> trusty_exit,
   gp_init |-> gp_init, gp_exit |-> gp_exit,
   qsee_close |-> CloseDevice({"libQSEEComAPI"}),
   isee_close |-> <<Put({"device"})>>,
   kinibi_close |-> CloseDevice({"libMcTrusty"}),
   trusty_close |-> CloseDevice({"libtrusty"}),
   gp_close |-> CloseDevice({"libGP"})]

From(needs, gains) == [needs |-> needs, gains |-> gains]
QseeOpen == {"device", "libQSEEComAPI"}
IseeOpen == {"device"}
KinibiOpen == {"device", "libMcTrusty"}
TrustyOpen == {"device", "libtrusty"}
GpOpen == {"device", "libGP"}
QseeReady == QseeOpen \union {"qsee_app"}
IseeReady == IseeOpen \union {"isee_fd"}
KinibiReady == KinibiOpen \union {"mc_device", "g_mem", "mc_session"}
TrustyReady == TrustyOpen \union {"tipc"}
GpReady == GpOpen \union {"context", "session", "in_mem", "out_mem"}

HalContract ==
  [qsee_open |-> From({}, QseeOpen), qsee_close |-> From(QseeOpen, {}),
   isee_open |-> From({}, IseeOpen), isee_close |-> From(IseeOpen, {}),
   kinibi_open |-> From({}, KinibiOpen), kinibi_close |-> From(KinibiOpen, {}),
   trusty_open |-> From({}, TrustyOpen), trusty_close |-> From(TrustyOpen, {}),
   gp_open |-> From({}, GpOpen), gp_close |-> From(GpOpen, {}),
   qsee_init |-> From(QseeOpen, QseeReady),
   isee_init |-> From(IseeOpen, IseeReady),
   kinibi_init |-> From(KinibiOpen, KinibiReady),
   trusty_init |-> From(TrustyOpen, TrustyReady),
   gp_init |-> From(GpOpen, GpReady),
   qsee_exit |-> From(QseeReady, QseeOpen),
   isee_exit |-> From(IseeReady, IseeOpen),
   kinibi_exit |-> From(KinibiReady, KinibiOpen),
   trusty_exit |-> From(TrustyReady, TrustyOpen),
   gp_exit |-> From(GpReady, GpOpen)]

\* A Kinibi session exchanges over g_mem until it is closed.
SessionOverTci == <<"mc_session", "g_mem">>

\* mcCloseDevice wants the sessions closed, TEEC_FinalizeContext the sessions
\* and the shared memory; a library stays until all it opened is gone.
HalDepends ==
  {<<"mc_session", "mc_device">>, SessionOverTci, <<"session", "context">>,
   <<"in_mem", "context">>, <<"out_mem", "context">>,
   <<"qsee_app", "libQSEEComAPI">>, <<"mc_device", "libMcTrusty">>,
   <<"tipc", "libtrusty">>, <<"context", "libGP">>}

---------------------------------------------------------------------------
(* Where the code departs from the rules.                                  *)

\* init() of tee_test.c returns with the device structure allocated, and after
\* a missing symbol with the library open; kinibi_init never closes the file
\* it reads and its error exits close nothing; nor do those of gp_init.
HalLeaky ==
  {"qsee_open", "kinibi_open", "trusty_open", "gp_open", "kinibi_init",
   "gp_init"}

\* tee_exit and release() return nothing: the results of shutdown_app, close,
\* tipc_close, mcCloseSession, mcCloseDevice and dlclose are dropped.
HalDeaf ==
  {<<"qsee_exit", 1>>, <<"isee_exit", 1>>, <<"trusty_exit", 1>>,
   <<"kinibi_exit", 2>>, <<"kinibi_exit", 3>>,
   <<"qsee_close", 1>>, <<"kinibi_close", 1>>, <<"trusty_close", 1>>,
   <<"gp_close", 1>>}

\* kinibi_exit frees the exchange buffer before it closes the session.
HalHasty == {<<"kinibi_exit", SessionOverTci>>}
=============================================================================

----------------------------- MODULE TaTables -----------------------------
(***************************************************************************)
(* What the platforms of the trusted application put behind the operations *)
(* of struct platform_device, as tables of Routine: SPI and I2C, time,     *)
(* token, HMAC, keys, encryption and secure storage of QSEE, ISEE, Kinibi  *)
(* and Trusty (sampleta/platform).  SecureStorage looks at the contents of *)
(* the files; here it is the control flow of every operation.  The vendor  *)
(* calls are not part of this repository: what they can return is read off *)
(* the test the code makes of them.                                        *)
(***************************************************************************)
EXTENDS CallTable, TLC

\* `sys_err = f(...)` with if_err(sys_err != 0, ), the commonest row.
Simple == <<Call("code", NonZero, Fall)>>

\* verify_hmac: the result of get_hmac is tested again, then the bytes compared.
Verify(getHmac) == Then(getHmac, <<Check(NonZero, Return), Test(Fall)>>)

\* get_token: try the random generator, record after the last turn, or go on
\* to read the time.
Token(how, kind, uptime) ==
  Join(<<Loop(how, kind, NotFull), Fail(Return)>>, uptime)

---------------------------------------------------------------------------
(* QSEE.                                                                   *)

\* Mutation: the bus stays open when the transfer fails.
qsee_spi_rw_returns ==
  <<Get({"spi"}, "code", NonZero, Return), Call("code", NonZero, Return),
    PutDropped({"spi"}, "code")>>

qsee_spi_rw ==
  <<Get({"spi"}, "code", NonZero, Return), Call("code", NonZero, Fall),
    PutDropped({"spi"}, "code")>>

qsee_i2c_rw ==
  <<Get({"i2c"}, "code", NonZero, Return), Call("code", NonZero, Fall),
    PutChecked({"i2c"}, "code", NonZero)>>

qsee_uptime == <<Unstored("void", {}, Fall)>>

\* Mutation: the turns are not counted.
qsee_get_token_endless == Token("endless", "count", qsee_uptime)

qsee_get_token == Token("counted", "count", qsee_uptime)
qsee_get_hmac == Simple
qsee_verify_hmac == Verify(qsee_get_hmac)
qsee_get_hmac_key == Simple
qsee_km_encap == Simple
qsee_crypto == <<Test(Return), Call("code", NonZero, Fall)>>
qsee_decrypt == <<Test(Return), Call("code", NonZero, Fall)>>

\* Mutation: a descriptor above zero is taken for an error.
qsee_write_positive ==
  <<Test(Return), Get({"file"}, "handle", NonZero, Return),
    Call("count", Neg, Fall), PutDropped({"file"}, "code")>>

qsee_write ==
  <<Test(Return), Get({"file"}, "handle", Neg, Return),
    Call("count", Neg, Fall), PutDropped({"file"}, "code")>>

\* Mutation: a failed read is not recorded.
qsee_read_unchecked ==
  <<Test(Return), Get({"file"}, "handle", Neg, Return),
    Call("negcode", Neg, 7), Test(7), Test(7), Call("count", {}, Fall),
    PutDropped({"file"}, "code")>>

\* Arguments, open, size; an empty or too large file goes to `end`; read.
qsee_read ==
  <<Test(Return), Get({"file"}, "handle", Neg, Return),
    Call("negcode", Neg, 7), Test(7), Test(7), Call("count", NotFull, Fall),
    PutDropped({"file"}, "code")>>

---------------------------------------------------------------------------
(* ISEE.                                                                   *)

isee_spi_rw == Simple
isee_uptime == <<Call("code", NonZero, Return)>>
isee_token == Token("endless", "count", isee_uptime)

\* A message of one whole block and a rest: two updates.
isee_get_hmac ==
  <<Get({"ctx"}, "code", NonZero, Return), Call("code", NonZero, 6),
    Call("code", NonZero, 6), Call("code", NonZero, 6),
    Call("code", NonZero, Fall), PutDropped({"ctx"}, "code")>>

isee_verify_hmac == Verify(isee_get_hmac)
isee_get_hmac_key == Simple
isee_km_encap == Simple

\* ut_pf_ts_cp_open returns a descriptor, the test takes all but 0 for errors.
isee_write ==
  <<Get({"file"}, "handle", NonZero, Return), Call("count", Neg, Fall),
    PutDropped({"file"}, "code")>>

isee_read ==
  <<Get({"file"}, "handle", NonZero, Return), Call("handle", Neg, 6),
    CheckData(Null, 6), Test(6), Call("count", Neg, Fall),
    PutDropped({"file"}, "code")>>

---------------------------------------------------------------------------
(* Kinibi.                                                                 *)

\* drSpiSend in this repository is a stub that returns 0.
kinibi_spi_rw == <<Call("void", NonZero, Fall)>>
\* The result of tlApiGetSecureTimestamp is dropped.
kinibi_uptime == <<Unstored("code", {}, Fall)>>

\* The result code goes to the length that is then compared with 8.
kinibi_token == Token("counted", "code", kinibi_uptime)

kinibi_get_hmac ==
  <<Call("code", NonZero, Return), Call("code", NonZero, Fall)>>
kinibi_verify_hmac == Verify(kinibi_get_hmac)
kinibi_get_hmac_key == Simple
kinibi_crypto == Simple
kinibi_decrypt == Simple

\* The result of the transfer is dropped, the test sees that of the open.
kinibi_read ==
  <<Get({"object"}, "code", NonZero, Return), Dropped("code", NonZero, Fall),
    Put({"object"})>>
kinibi_write ==
  <<Get({"object"}, "code", NonZero, Return), Dropped("code", NonZero, Fall),
    Put({"object"})>>

---------------------------------------------------------------------------
(* Trusty.                                                                 *)

trusty_spi_rw == Simple
trusty_uptime == <<Call("code", NonZero, Return)>>
trusty_token == Token("endless", "count", trusty_uptime)
trusty_get_hmac == <<Unstored("pointer", Null, Fall)>>
trusty_verify_hmac == Verify(trusty_get_hmac)

\* keymaster_open returns the session; the test takes it for an error code.
trusty_get_hmac_key ==
  <<Get({"keymaster"}, "handle", NonZero, Return), Call("code", NonZero, Fall),
    Put({"keymaster"})>>

\* The result of nanosleep is dropped.
trusty_sleep == <<Unstored("negcode", {}, Fall)>>

\* Session, file, write, close the file, end the transaction, close the session.
trusty_write ==
  <<Get({"storage_session"}, "negcode", Neg, Return),
    Get({"session_file"}, "negcode", Neg, 6),
    Call("count", Neg, Fall), Put({"session_file"}), Unstored("negcode", {}, Fall),
    Put({"storage_session"})>>

\* Mutation: a file that could not be opened is closed all the same.
trusty_read_wrong_label ==
  <<Get({"storage_session"}, "negcode", Neg, Return),
    Get({"session_file"}, "negcode", Neg, 7),
    Call("negcode", Neg, 7), Test(7), Test(7), Call("count", Neg, Fall),
    Put({"session_file"}), Unstored("negcode", {}, Fall),
    Put({"storage_session"})>>

trusty_read ==
  <<Get({"storage_session"}, "negcode", Neg, Return),
    Get({"session_file"}, "negcode", Neg, 9),
    Call("negcode", Neg, 7), Test(7), Test(7), Call("count", Neg, Fall),
    Put({"session_file"}), Unstored("negcode", {}, Fall),
    Put({"storage_session"})>>

---------------------------------------------------------------------------
\* The operations each platform_init offers.  Command functions may call them
\* in any order; sys_err keeps what the last one left.
QseeCode ==
  [qsee_spi_rw |-> qsee_spi_rw, qsee_i2c_rw |-> qsee_i2c_rw,
   qsee_uptime |-> qsee_uptime, qsee_get_token |-> qsee_get_token,
   qsee_get_hmac |-> qsee_get_hmac, qsee_verify_hmac |-> qsee_verify_hmac,
   qsee_get_hmac_key |-> qsee_get_hmac_key, qsee_km_encap |-> qsee_km_encap,
   qsee_crypto |-> qsee_crypto, qsee_decrypt |-> qsee_decrypt,
   qsee_write |-> qsee_write, qsee_read |-> qsee_read]

IseeCode ==
  [isee_spi_rw |-> isee_spi_rw, isee_uptime |-> isee_uptime,
   isee_token |-> isee_token, isee_get_hmac |-> isee_get_hmac,
   isee_verify_hmac |-> isee_verify_hmac,
   isee_get_hmac_key |-> isee_get_hmac_key, isee_km_encap |-> isee_km_encap,
   isee_write |-> isee_write, isee_read |-> isee_read]

KinibiCode ==
  [kinibi_spi_rw |-> kinibi_spi_rw, kinibi_uptime |-> kinibi_uptime,
   kinibi_token |-> kinibi_token, kinibi_get_hmac |-> kinibi_get_hmac,
   kinibi_verify_hmac |-> kinibi_verify_hmac,
   kinibi_get_hmac_key |-> kinibi_get_hmac_key,
   kinibi_crypto |-> kinibi_crypto, kinibi_decrypt |-> kinibi_decrypt,
   kinibi_read |-> kinibi_read, kinibi_write |-> kinibi_write]

TrustyCode ==
  [trusty_spi_rw |-> trusty_spi_rw, trusty_uptime |-> trusty_uptime,
   trusty_token |-> trusty_token, trusty_get_hmac |-> trusty_get_hmac,
   trusty_verify_hmac |-> trusty_verify_hmac,
   trusty_get_hmac_key |-> trusty_get_hmac_key,
   trusty_sleep |-> trusty_sleep,
   trusty_write |-> trusty_write, trusty_read |-> trusty_read]

TaCode == QseeCode @@ IseeCode @@ KinibiCode @@ TrustyCode

\* An operation starts with nothing open and leaves nothing open.
TaContract == [c \in DOMAIN TaCode |-> [needs |-> {}, gains |-> {}]]

\* A file of a Trusty storage session goes before the session.
TaDepends == {<<"session_file", "storage_session">>}

---------------------------------------------------------------------------
(* Where the code departs from the rules.                                  *)

\* A positive descriptor or session is taken for an error, and not closed.
TaLeaky == {"isee_write", "isee_read", "trusty_get_hmac_key"}

\* Only a negative count is an error, so a short one passes; the result of the
\* Kinibi object calls is dropped; and so are the results of the calls that
\* close a bus, a file or a context, end a transaction, tell the time or sleep.
TaDeaf ==
  {<<"qsee_write", 3>>, <<"isee_write", 2>>, <<"isee_read", 5>>,
   <<"trusty_write", 3>>, <<"trusty_read", 6>>,
   <<"kinibi_write", 2>>, <<"kinibi_read", 2>>,
   <<"qsee_spi_rw", 3>>, <<"qsee_write", 4>>, <<"qsee_read", 7>>,
   <<"isee_get_hmac", 6>>, <<"isee_verify_hmac", 6>>, <<"isee_write", 3>>,
   <<"isee_read", 6>>, <<"trusty_write", 5>>, <<"trusty_read", 8>>,
   <<"kinibi_uptime", 1>>, <<"kinibi_token", 3>>, <<"trusty_sleep", 1>>}

\* trusty_verify_hmac tests a sys_err nobody has set; kinibi_token compares a
\* result code with a length; the descriptors and the session again.
TaAlarmist == TaLeaky \union {"trusty_verify_hmac", "kinibi_token"}

\* `while(try > 0)` with a `try` that never changes.
TaEndless == {"isee_token", "trusty_token"}
=============================================================================

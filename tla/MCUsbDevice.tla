---------------------------- MODULE MCUsbDevice ----------------------------
(* One interface and each request with an effect or an answer of its own.  *)
EXTENDS UsbDevice

R(op, i, v) == [op |-> op, itf |-> i, value |-> v]

MCRequest ==
  {R("getConfig", "kb", 0), R("getStatus", "kb", 0),
   R("setAddress", "kb", 1), R("setConfig", "kb", 0), R("setConfig", "kb", 1),
   R("setConfig", "kb", 2), R("setWakeup", "kb", 0), R("clearWakeup", "kb", 0),
   R("setInterface", "kb", 0), R("setReport", "kb", 0),
   R("getReport", "kb", 0), R("getReport", "kb", 256),
   R("getIdle", "kb", 0), R("setIdle", "kb", 0), R("setIdle", "kb", 257),
   R("getHalt", "kb", 0), R("setHalt", "kb", 0), R("clearHalt", "kb", 0)}
=============================================================================

---------------------------- MODULE MCByteBuffer ----------------------------
EXTENDS ByteBuffer
=============================================================================
